---- MODULE Spec2Model ----
(***************************************************************************)
(* Model of the PDF-to-chunk pipeline of LQ458/PDFconvertor:                *)
(*   - scripts/batch-process-textbooks.js  (BatchProcessor)                *)
(*   - src/services/pdfProcessor.ts        (PDFProcessor)                  *)
(*   - src/utils/fileSystem.ts             (saveProcessedData)             *)
(*   - scripts/optimize-for-rag.js         (optimizeChunks)                *)
(* Three specifications share the definitions below:                       *)
(*   Spec      batch runs with GENERATE_EMBEDDINGS=false                   *)
(*   SpecEmbed one batch run with embeddings switched on                   *)
(*   SpecOpt   optimizeChunks applied to bounded chunk sequences           *)
(***************************************************************************)
EXTENDS Integers, Sequences, FiniteSets, TLC

(***************************************************************************)
(* Bounds of the model.                                                    *)
(***************************************************************************)
MaxDocs == 7
MaxDocsSmall == 4
MaxRuns == 2
MaxFaults == 1
MaxEmbedDocs == 2
MaxChunks == 2
MaxOptLen == 3
MaxOptRuns == 2
MaxShortRun == 10
MaxFiltLen == 2
MaxLines == 2
MaxOptFiles == 2

(***************************************************************************)
(* Program constants.                                                      *)
(***************************************************************************)
concurrentLimit == 3
MIN_CHUNK_LENGTH == 50
MAX_CHUNK_LENGTH == 8000
NumRoots == 2

(***************************************************************************)
(* Generic helpers.                                                        *)
(***************************************************************************)
Min(a, b) == IF a < b THEN a ELSE b

Last(s) == s[Len(s)]

Front(s) == SubSeq(s, 1, Len(s) - 1)

Range(s) == {s[x] : x \in 1..Len(s)}

(***************************************************************************)
(* File names are sequences of tokens; a token is a character or an        *)
(* indivisible piece such as an extension or a decimal timestamp.          *)
(***************************************************************************)
\* String.prototype.includes on token sequences: contiguous occurrence.
NameIncludes(file, part) ==
  \E o \in 0..(Len(file) - Len(part)) :
     \A x \in 1..Len(part) : file[o + x] = part[x]

\* String.prototype.endsWith for a one-token suffix.
NameEndsWith(file, ext) == Len(file) > 0 /\ Last(file) = ext

\* path.basename(p, ext): the extension is removed only on an exact match.
Basename(name, ext) ==
  IF Len(name) > 1 /\ Last(name) = ext THEN Front(name) ELSE name

\* path.extname(name).toLowerCase()
ExtLower(name) ==
  IF Len(name) = 0 THEN ""
  ELSE IF Last(name) \in {".pdf", ".PDF"} THEN ".pdf" ELSE Last(name)

(***************************************************************************)
(* Chunk contents are JavaScript strings, written run-length encoded: a    *)
(* sequence of runs [c |-> character, n |-> repetitions], n > 0, adjacent  *)
(* runs of distinct characters; "LF" is the line feed.                     *)
(***************************************************************************)
Run(c, n) == [c |-> c, n |-> n]

Str(c, n) == IF n = 0 THEN <<>> ELSE <<Run(c, n)>>

\* characters removed by String.prototype.trim
IsSpace(c) == c \in {" ", "LF"}

\* characters of the class [U+3002 U+FF01 U+FF1F U+FF1B \n] that
\* splitLongContent splits on; a character is written as its code point
IsTerminator(c) == c \in {"U3002", "UFF01", "UFF1F", "UFF1B", "LF"}

RECURSIVE SLen(_)
\* s.length
SLen(s) == IF s = <<>> THEN 0 ELSE Head(s).n + SLen(Tail(s))

\* s + t
SCat(s, t) ==
  IF s = <<>> THEN t
  ELSE IF t = <<>> THEN s
  ELSE IF Last(s).c = Head(t).c
       THEN Front(s) \o <<Run(Head(t).c, Last(s).n + Head(t).n)>> \o Tail(t)
       ELSE s \o t

RECURSIVE DropSpaceLeft(_)
DropSpaceLeft(s) ==
  IF s # <<>> /\ IsSpace(Head(s).c) THEN DropSpaceLeft(Tail(s)) ELSE s

RECURSIVE DropSpaceRight(_)
DropSpaceRight(s) ==
  IF s # <<>> /\ IsSpace(Last(s).c) THEN DropSpaceRight(Front(s)) ELSE s

\* s.trim()
STrim(s) == DropSpaceRight(DropSpaceLeft(s))

RECURSIVE SPrefix(_, _)
\* s.substring(0, k)
SPrefix(s, k) ==
  IF s = <<>> \/ k <= 0 THEN <<>>
  ELSE IF Head(s).n >= k THEN <<Run(Head(s).c, k)>>
  ELSE <<Head(s)>> \o SPrefix(Tail(s), k - Head(s).n)

\* s.includes(p): p occurs in s at runs o+1 .. o+Len(p); the outer runs of p
\* may be shorter than the runs of s they lie in, the inner ones are equal.
SIncludes(s, p) ==
  \/ p = <<>>
  \/ \E o \in 0..(Len(s) - Len(p)) :
       \A x \in 1..Len(p) :
          /\ s[o + x].c = p[x].c
          /\ IF x = 1 \/ x = Len(p) THEN s[o + x].n >= p[x].n
                                    ELSE s[o + x].n = p[x].n

RECURSIVE SSplit(_, _)
\* s.split(/[terminators]/), with cur the piece collected so far
SSplit(s, cur) ==
  IF s = <<>> THEN <<cur>>
  ELSE IF IsTerminator(Head(s).c)
       THEN <<cur>> \o
            SSplit(IF Head(s).n = 1 THEN Tail(s)
                   ELSE <<Run(Head(s).c, Head(s).n - 1)>> \o Tail(s), <<>>)
       ELSE SSplit(Tail(s), cur \o <<Head(s)>>)

(***************************************************************************)
(* Environment: the directory tree scanned by the batch script.            *)
(***************************************************************************)
\* The PDF files that can lie under the two configured roots, in readdir
\* order.  Files 1 and 3 (and 2 and 5) share a file name under different
\* roots; file 4 has an upper-case extension.
FileUniverse ==
  << [id |-> 1, root |-> 1, name |-> <<"x", ".pdf">>],
     [id |-> 2, root |-> 1, name |-> <<"y", ".pdf">>],
     [id |-> 3, root |-> 2, name |-> <<"x", ".pdf">>],
     [id |-> 4, root |-> 2, name |-> <<"z", ".PDF">>],
     [id |-> 5, root |-> 2, name |-> <<"y", ".pdf">>],
     [id |-> 6, root |-> 2, name |-> <<"u", ".pdf">>],
     [id |-> 7, root |-> 2, name |-> <<"v", ".pdf">>],
     [id |-> 8, root |-> 2, name |-> <<"k", ".pdf">>] >>

RootStatus == {"ok", "missing", "unreadable"}

\* the states of the two roots that the batch specifications start from;
\* in the last one no root can be enumerated
RootConfigs ==
  { <<"ok", "ok">>, <<"missing", "ok">>, <<"ok", "unreadable">>,
    <<"missing", "unreadable">> }

VARIABLES
  \* environment
  tree,               \* files on disk, in scan order
  rootStatus,         \* per configured root: ok / missing / unreadable
  generateEmbeddings, \* CONFIG.generateEmbeddings
  envModel,           \* process.env.EMBEDDING_MODEL ("" when unset)
  now,                \* Date.now()
  outputDir,          \* names of the entries of CONFIG.outputDir
  processedExists,    \* whether <outputDir>/processed exists
  processedDir,       \* artifacts in <outputDir>/processed: name -> data
  \* BatchProcessor
  run,                \* number of the current run of the script
  orch,               \* position of run()/processFiles()
  files,              \* result of scanDirectories()
  i,                  \* loop variable of processFiles
  mapIdx,             \* documents of the current batch already mapped
  stats,              \* this.stats
  results,            \* results array of processFiles
  report,             \* value returned by generateReport()
  w,                  \* per document: state of its processSingleFile call
  \* PDFProcessor
  embeddingModel,     \* this.embeddingModel
  modelConfig,        \* this.modelConfig (key of EMBEDDING_MODELS)
  embeddingPipeline,  \* this.embeddingPipeline is set
  \* history
  loadCalls,          \* invocations of pipeline(...) on this instance
  groups,             \* batches sliced by processFiles in this run
  dispatched,         \* per document: calls of processSingleFile, this run
  pdfCalls,           \* per document: calls of processPDF, this run
  earlier,            \* artifacts that existed when this run started
  faults,             \* I/O errors that struck in this run
  \* optimizer
  optIn,              \* chunks handed to optimizeChunks
  optOut,             \* chunks returned by optimizeChunks
  optDone,            \* number of calls of optimizeChunks so far
  statistics,         \* the counters of the optimizer script
  optimization,       \* the optimization record of the file written last
  \* content filter scripts
  filtVariant,        \* which filter script runs: basic, smart or enhanced
  filtIn,             \* data.chunks of the file handed to filterFile
  filtOut,            \* the file written by filterFile and what it returned
  filtDone,           \* filterFile has returned
  \* PDFProcessor.cleanText
  rawText,            \* the text handed to cleanText
  cleanOut,           \* {cleanedText, needsReview} returned by cleanText
  cleanDone,          \* cleanText has returned
  \* reprocess script
  reproc,             \* position of the reprocess script
  failedFiles         \* the artifacts flagged by its scan

envVars == <<tree, rootStatus, generateEmbeddings, envModel>>

fsVars == <<outputDir, processedExists, processedDir>>

batchVars == <<run, orch, files, i, mapIdx, stats, results, report, w>>

procVars == <<embeddingModel, modelConfig, embeddingPipeline>>

histVars == <<loadCalls, groups, dispatched, pdfCalls, earlier, faults>>

optVars == <<optIn, optOut, optDone, statistics, optimization>>

filterVars == <<filtVariant, filtIn, filtOut, filtDone>>

cleanVars == <<rawText, cleanOut, cleanDone>>

reprocVars == <<reproc, failedFiles>>

scriptVars == <<optVars, filterVars, cleanVars, reprocVars>>

vars == <<envVars, now, fsVars, batchVars, procVars, histVars, scriptVars>>

(***************************************************************************)
(* PDFProcessor: model registry and constructor.                           *)
(***************************************************************************)
EMBEDDING_MODELS ==
  [ m \in {"bge-large-zh-v1.5", "bge-base-zh-v1.5", "bge-m3",
           "all-MiniLM-L6-v2", "all-mpnet-base-v2", "all-MiniLM-L12-v2",
           "gte-qwen2-1.5b"} |->
    CASE m = "bge-large-zh-v1.5" ->
           [name |-> "BAAI/bge-large-zh-v1.5", dimensions |-> 1024,
            maxTokens |-> 512, instruction |-> Str("q", 19)]
      [] m = "bge-base-zh-v1.5" ->
           [name |-> "BAAI/bge-base-zh-v1.5", dimensions |-> 768,
            maxTokens |-> 512, instruction |-> Str("q", 19)]
      [] m = "bge-m3" ->
           [name |-> "BAAI/bge-m3", dimensions |-> 1024,
            maxTokens |-> 8192, instruction |-> <<>>]
      [] m = "all-MiniLM-L6-v2" ->
           [name |-> "sentence-transformers/all-MiniLM-L6-v2",
            dimensions |-> 384, maxTokens |-> 256, instruction |-> <<>>]
      [] m = "all-mpnet-base-v2" ->
           [name |-> "sentence-transformers/all-mpnet-base-v2",
            dimensions |-> 768, maxTokens |-> 384, instruction |-> <<>>]
      [] m = "all-MiniLM-L12-v2" ->
           [name |-> "sentence-transformers/all-MiniLM-L12-v2",
            dimensions |-> 384, maxTokens |-> 256, instruction |-> <<>>]
      [] m = "gte-qwen2-1.5b" ->
           [name |-> "Alibaba-NLP/gte-Qwen2-1.5B-instruct",
            dimensions |-> 1536, maxTokens |-> 32000, instruction |-> <<>>] ]

\* process.env.EMBEDDING_MODEL || 'all-MiniLM-L6-v2'
ConfiguredModel(env) == IF env = "" THEN "all-MiniLM-L6-v2" ELSE env

\* property names that the object literal EMBEDDING_MODELS inherits from
\* Object.prototype: a lookup by one of them yields a function
ObjectPrototypeKeys == {"toString", "constructor"}

\* EMBEDDING_MODELS[id] is truthy: the test `!this.modelConfig` fails
HasModelConfig(id) ==
  id \in DOMAIN EMBEDDING_MODELS \cup ObjectPrototypeKeys

\* this.embeddingModel after the constructor
CtorEmbeddingModel(env) ==
  IF HasModelConfig(ConfiguredModel(env))
  THEN ConfiguredModel(env) ELSE "all-MiniLM-L6-v2"

\* this.modelConfig after the constructor, named by the property of
\* EMBEDDING_MODELS it was read from
CtorModelConfig(env) ==
  IF HasModelConfig(ConfiguredModel(env))
  THEN ConfiguredModel(env) ELSE "all-MiniLM-L6-v2"

(***************************************************************************)
(* BatchProcessor: scanning, the skip test, the statistics.                *)
(***************************************************************************)
supportedExtensions == {".pdf"}

\* scanDirectory(dir): a directory that cannot be read yields no file
ScanDirectory(r) ==
  IF rootStatus[r] = "unreadable" THEN <<>>
  ELSE SelectSeq(tree, LAMBDA f :
                   f.root = r /\ ExtLower(f.name) \in supportedExtensions)

RECURSIVE ScanFrom(_)
\* scanDirectories(): the roots in order, missing roots are passed over
ScanFrom(r) ==
  IF r > NumRoots THEN <<>>
  ELSE (IF rootStatus[r] = "missing" THEN <<>> ELSE ScanDirectory(r))
       \o ScanFrom(r + 1)

ScanDirectories == ScanFrom(1)

\* path.relative(process.cwd(), fullPath)
RelativePath(f) == <<ToString(f.root), "/">> \o f.name

\* isAlreadyProcessed(filePath): looks at the entries of CONFIG.outputDir
IsAlreadyProcessed(f) ==
  \E e \in outputDir :
     NameIncludes(e, Basename(f.name, ".pdf")) /\ NameEndsWith(e, ".json")

\* `${Date.now()}_${result.filename}.json`
OutputFilename(t, f) == <<ToString(t), "_">> \o f.name \o <<".json">>

\* the artifacts among as that belong to f by its file name stem
ArtifactsFor(as, f) == {a \in as : NameIncludes(a, Basename(f.name, ".pdf"))}

InitStats ==
  [total |-> 0, processed |-> 0, failed |-> 0, skipped |-> 0,
   errors |-> <<>>]

\* a catch block that logs the error without counting the document
RecordFailureUncounted(st, f, msg, t) ==
  [st EXCEPT !.errors = Append(@, [file |-> RelativePath(f), error |-> msg,
                                   timestamp |-> t])]

\* the catch block of processSingleFile
RecordFailure(st, f, msg, t) ==
  [st EXCEPT !.failed = @ + 1,
             !.errors = Append(@, [file |-> RelativePath(f), error |-> msg,
                                   timestamp |-> t])]

\* a slice that runs one document into the next batch
BatchOfOverlapping(fs, from) ==
  [x \in 1..(Min(from + concurrentLimit + 1, Len(fs)) - from) |-> from + x]

\* files.slice(i, i + CONFIG.concurrentLimit), as document numbers
BatchOf(fs, from) ==
  [x \in 1..(Min(from + concurrentLimit, Len(fs)) - from) |-> from + x]

Batch == BatchOf(files, i)

Settled(d) == w[d].pc \in {"fulfilled", "rejected"}

\* a wait that ends with the first settled promise
BatchAnySettled(b) == \E x \in 1..Len(b) : Settled(b[x])

\* Promise.allSettled(batchPromises) has resolved
BatchSettled(b) == \A x \in 1..Len(b) : Settled(b[x])

IdleWorker ==
  [pc |-> "idle", texts |-> <<>>, chunks |-> <<>>, k |-> 0,
   threw |-> {}, out |-> <<>>, ret |-> "none", reason |-> "none"]

\* Date.now() is modelled by a clock that advances when a batch has
\* settled and when the script is started again: the readings within one
\* batch coincide, the readings of different batches differ.
Tick(t) == t + 1

(***************************************************************************)
(* PDFProcessor.processPDF: chunks and the chunk loop.                     *)
(***************************************************************************)
MaxChunksPerDocument == 500

NoEmbedding == [present |-> FALSE, dim |-> 0, of |-> <<>>]

Embedding(dim, text) == [present |-> TRUE, dim |-> dim, of |-> text]

\* the chunk texts a document can split into, in document order
ChunkTexts ==
  << Str("x", 100), Str("y", 60), Str("x", 70), Str("y", 80) >>

\* textSplitter.splitText(cleanedText) followed by slice(0, maxChunks):
\* the text of file f splits into MaxChunks, MaxChunks-1, .., 0 chunks for
\* f.id = 1, 2, ..
SplitOutput(f) ==
  SubSeq(ChunkTexts, 1,
         Min(MaxChunks - ((f.id - 1) % (MaxChunks + 1)),
             MaxChunksPerDocument))

\* the ProcessedChunk built at the top of the loop body
NewChunk(text, idx, f, emb) ==
  [content |-> text, chunkIndex |-> idx, source |-> f.name,
   embedding |-> emb]

\* the loop condition for calling generateEmbedding
WantsEmbedding(gen, text) == gen /\ SLen(STrim(text)) > 0

RECURSIVE ChunkLoop(_, _, _, _, _)
\* the for loop of processPDF from chunk k on, up to the next chunk for
\* which generateEmbedding is awaited or to the end of the loop
ChunkLoop(texts, chunks, k, gen, f) ==
  IF k > Len(texts) THEN [k |-> k, chunks |-> chunks]
  ELSE IF WantsEmbedding(gen, texts[k]) THEN [k |-> k, chunks |-> chunks]
  ELSE ChunkLoop(texts,
                 Append(chunks, NewChunk(texts[k], k - 1, f, NoEmbedding)),
                 k + 1, gen, f)

\* the ProcessedDocument returned by processPDF
ResultDoc(f, chunks) ==
  [filename |-> f.name, totalChunks |-> Len(chunks), chunks |-> chunks,
   embeddingModel |-> IF generateEmbeddings
                      THEN EMBEDDING_MODELS[modelConfig].name ELSE "undefined"]

\* processPDF goes on from chunk k of document d: it runs to the next
\* await, which is the model load or inference of generateEmbedding, or,
\* after the loop, saveProcessedData in processSingleFile.  thr is the
\* set of chunks of d for which generateEmbedding threw (kept for the
\* properties).  initEmbeddingModel calls pipeline(...) when
\* this.embeddingPipeline is not set at the time of the call.
Resume(d, texts, chunks, k, thr) ==
  LET r == ChunkLoop(texts, chunks, k, generateEmbeddings, files[d]) IN
  IF r.k > Len(texts)
  THEN /\ w' = [w EXCEPT ![d] = [@ EXCEPT !.pc = "save",
                    !.texts = texts, !.chunks = r.chunks, !.k = r.k,
                    !.threw = thr, !.out = OutputFilename(now, files[d])]]
       /\ UNCHANGED loadCalls
  ELSE /\ w' = [w EXCEPT ![d] = [@ EXCEPT
                  !.pc = IF embeddingPipeline THEN "infer" ELSE "load",
                  !.texts = texts, !.chunks = r.chunks, !.k = r.k,
                  !.threw = thr]]
       /\ loadCalls' = IF embeddingPipeline THEN loadCalls ELSE loadCalls + 1

(***************************************************************************)
(* Initial states.                                                         *)
(***************************************************************************)
InitStatistics ==
  [totalFiles |-> 0, processedFiles |-> 0, skippedFiles |-> 0,
   originalChunks |-> 0, optimizedChunks |-> 0, mergedChunks |-> 0,
   removedChunks |-> 0]

InitOpt ==
  /\ optIn = <<>>
  /\ optOut = <<>>
  /\ optDone = 0
  /\ statistics = InitStatistics
  /\ optimization = <<>>

\* no file has been handed to a filter script
InitFilter ==
  /\ filtVariant = "smart"
  /\ filtIn = <<>>
  /\ filtOut = <<>>
  /\ filtDone = FALSE

\* cleanText has not been called
InitClean ==
  /\ rawText = <<>>
  /\ cleanOut = <<>>
  /\ cleanDone = FALSE

\* the reprocess script has not been started
InitReproc ==
  /\ reproc = "none"
  /\ failedFiles = {}

InitScripts == InitOpt /\ InitFilter /\ InitClean /\ InitReproc

InitBatch ==
  /\ outputDir = IF processedExists THEN {<<"processed">>} ELSE {}
  /\ processedDir = <<>>
  /\ now = 0
  /\ run = 1
  /\ orch = "init"
  /\ files = <<>>
  /\ i = 0
  /\ mapIdx = 0
  /\ stats = InitStats
  /\ results = <<>>
  /\ report = <<>>
  /\ w = <<>>
  /\ embeddingModel = CtorEmbeddingModel(envModel)
  /\ modelConfig = CtorModelConfig(envModel)
  /\ embeddingPipeline = FALSE
  /\ loadCalls = 0
  /\ groups = <<>>
  /\ dispatched = <<>>
  /\ pdfCalls = <<>>
  /\ earlier = {}
  /\ faults = 0

Init ==
  /\ tree \in {SubSeq(FileUniverse, 1, n) : n \in 0..MaxDocs}
  /\ rootStatus \in RootConfigs
  /\ processedExists \in BOOLEAN
  /\ generateEmbeddings = FALSE
  /\ envModel = ""
  /\ InitBatch
  /\ InitScripts

(***************************************************************************)
(* BatchProcessor.run and processFiles.                                    *)
(***************************************************************************)
\* run(): scanDirectories, stats.total, then the first batch of
\* processFiles is sliced; with no file run() returns at once.
RunStart ==
  /\ orch = "init"
  /\ LET fs == ScanDirectories IN
       /\ files' = fs
       /\ stats' = [stats EXCEPT !.total = Len(fs)]
       /\ w' = [d \in 1..Len(fs) |-> IdleWorker]
       /\ dispatched' = [d \in 1..Len(fs) |-> 0]
       /\ pdfCalls' = [d \in 1..Len(fs) |-> 0]
       /\ IF Len(fs) = 0
          THEN orch' = "returned" /\ groups' = <<>>
          ELSE orch' = "map" /\ groups' = <<BatchOf(fs, 0)>>
  /\ i' = 0
  /\ mapIdx' = 0
  /\ UNCHANGED <<envVars, now, fsVars, run, results, report, procVars,
                 loadCalls, earlier, faults, scriptVars>>

\* batch.map(file => this.processSingleFile(file)) for the next document
\* of the batch: processSingleFile runs up to its first await.  A document
\* found already processed is counted as skipped and its promise is
\* fulfilled; otherwise processPDF is called and awaits pdf(fileBuffer).
Dispatch ==
  /\ orch = "map"
  /\ mapIdx < Len(Batch)
  /\ LET d == Batch[mapIdx + 1] IN
       /\ dispatched' = [dispatched EXCEPT ![d] = @ + 1]
       /\ IF IsAlreadyProcessed(files[d])
          THEN /\ stats' = [stats EXCEPT !.skipped = @ + 1]
               /\ w' = [w EXCEPT ![d] = [@ EXCEPT !.pc = "fulfilled",
                                                  !.ret = "skipped"]]
               /\ UNCHANGED pdfCalls
          ELSE /\ w' = [w EXCEPT ![d] = [@ EXCEPT !.pc = "pdf"]]
               /\ pdfCalls' = [pdfCalls EXCEPT ![d] = @ + 1]
               /\ UNCHANGED stats
  /\ mapIdx' = mapIdx + 1
  /\ orch' = IF mapIdx + 1 = Len(Batch) THEN "await" ELSE "map"
  /\ UNCHANGED <<envVars, now, fsVars, run, files, i, results, report,
                 procVars, loadCalls, groups, earlier, faults, scriptVars>>

\* a catch block that records the failure and throws it on
CatchRethrow(d, msg) ==
  /\ stats' = RecordFailure(stats, files[d], msg, now)
  /\ w' = [w EXCEPT ![d] = [@ EXCEPT !.pc = "rejected", !.ret = "failed",
                                     !.reason = msg]]

\* the catch block of processSingleFile for document d
Catch(d, msg) ==
  /\ stats' = RecordFailure(stats, files[d], msg, now)
  /\ w' = [w EXCEPT ![d] = [@ EXCEPT !.pc = "fulfilled", !.ret = "failed",
                                     !.reason = msg]]

\* readFileSync / pdf(fileBuffer) and then splitText of processPDF settle:
\* the text is extracted, cleaned and split and the chunk loop starts, or
\* the error is re-thrown into processSingleFile (one of the at most
\* MaxFaults I/O errors of the run).
PdfDone(d) ==
  /\ orch = "await"
  /\ w[d].pc = "pdf"
  /\ \/ /\ Resume(d, SplitOutput(files[d]), <<>>, 1, {})
        /\ UNCHANGED <<stats, faults>>
     \/ /\ faults < MaxFaults
        /\ faults' = faults + 1
        /\ Catch(d, "pdf")
        /\ UNCHANGED loadCalls
  /\ UNCHANGED <<envVars, now, fsVars, run, orch, files, i, mapIdx, results,
                 report, procVars, groups, dispatched, pdfCalls, earlier,
                 scriptVars>>

\* saveProcessedData settles: fs.writeJSON wrote the artifact into
\* <outputDir>/processed and the document is counted as processed, or it
\* threw (always when that directory does not exist, else as one of the
\* at most MaxFaults I/O errors of the run).
SaveDone(d) ==
  /\ orch = "await"
  /\ w[d].pc = "save"
  /\ \/ /\ processedExists
        /\ processedDir' =
             [a \in DOMAIN processedDir \cup {w[d].out} |->
                IF a = w[d].out THEN ResultDoc(files[d], w[d].chunks)
                ELSE processedDir[a]]
        /\ stats' = [stats EXCEPT !.processed = @ + 1]
        /\ w' = [w EXCEPT ![d] = [@ EXCEPT !.pc = "fulfilled",
                                           !.ret = "processed"]]
        /\ UNCHANGED faults
     \/ /\ ~processedExists \/ faults < MaxFaults
        /\ faults' = IF processedExists THEN faults + 1 ELSE faults
        /\ Catch(d, "save")
        /\ UNCHANGED processedDir
  /\ UNCHANGED <<envVars, now, outputDir, processedExists, run, orch, files,
                 i, mapIdx, results, report, procVars, loadCalls, groups,
                 dispatched, pdfCalls, earlier, scriptVars>>

RECURSIVE Collect(_, _, _)
\* batchResults.forEach over the documents ds of the settled batch;
\* acc holds stats and results
Collect(ds, acc, t) ==
  IF ds = <<>> THEN acc
  ELSE LET d == Head(ds) IN
       Collect(Tail(ds),
               IF w[d].pc = "fulfilled"
               THEN [acc EXCEPT !.results = Append(@, w[d].ret)]
               ELSE [acc EXCEPT !.stats =
                       RecordFailure(@, files[d], w[d].reason, t)],
               t)

\* Promise.allSettled resolves: the results are collected and the loop
\* of processFiles goes to the next batch or ends.
BatchDone ==
  /\ orch = "await"
  /\ BatchSettled(Batch)
  /\ LET acc == Collect(Batch, [stats |-> stats, results |-> results], now)
     IN /\ stats' = acc.stats
        /\ results' = acc.results
  /\ i' = i + concurrentLimit
  /\ mapIdx' = 0
  /\ IF i + concurrentLimit < Len(files)
     THEN /\ orch' = "map"
          /\ groups' = Append(groups, BatchOf(files, i + concurrentLimit))
     ELSE /\ orch' = "report"
          /\ UNCHANGED groups
  /\ now' = Tick(now)
  /\ UNCHANGED <<envVars, fsVars, run, files, report, w, procVars,
                 loadCalls, dispatched, pdfCalls, earlier, faults,
                 scriptVars>>

\* generateReport()
GenerateReport ==
  [summary |-> [total |-> stats.total, processed |-> stats.processed,
                failed |-> stats.failed, skipped |-> stats.skipped],
   configuration |->
     [embeddingModel |-> IF envModel = "" THEN "bge-large-zh-v1.5"
                         ELSE envModel,
      generateEmbeddings |-> generateEmbeddings,
      concurrentLimit |-> concurrentLimit],
   errors |-> stats.errors]

\* generateReport and saveReport at the end of run(): the report file is
\* written into CONFIG.outputDir.
Report ==
  /\ orch = "report"
  /\ report' = GenerateReport
  /\ outputDir' = outputDir \cup
                    {<<"batch", "_", "report", "_", ToString(now), ".json">>}
  /\ orch' = "done"
  /\ UNCHANGED <<envVars, now, processedExists, processedDir, run, files, i,
                 mapIdx, stats, results, w, procVars, histVars, scriptVars>>

\* the script is started again: a new BatchProcessor and PDFProcessor are
\* constructed over the same tree and the same output directory.
NewRun ==
  /\ orch \in {"done", "returned"}
  /\ run < MaxRuns
  /\ run' = run + 1
  /\ now' = Tick(now)
  /\ orch' = "init"
  /\ files' = <<>>
  /\ i' = 0
  /\ mapIdx' = 0
  /\ stats' = InitStats
  /\ results' = <<>>
  /\ report' = <<>>
  /\ w' = <<>>
  /\ embeddingModel' = CtorEmbeddingModel(envModel)
  /\ modelConfig' = CtorModelConfig(envModel)
  /\ embeddingPipeline' = FALSE
  /\ loadCalls' = 0
  /\ groups' = <<>>
  /\ dispatched' = <<>>
  /\ pdfCalls' = <<>>
  /\ earlier' = DOMAIN processedDir
  /\ faults' = 0
  /\ UNCHANGED <<envVars, fsVars, scriptVars>>

Docs == 1..Len(files)

Next ==
  \/ RunStart
  \/ Dispatch
  \/ \E d \in Docs : PdfDone(d)
  \/ \E d \in Docs : SaveDone(d)
  \/ BatchDone
  \/ Report

\* one run of the batch script
Spec == Init /\ [][Next]_vars

InitSmall ==
  /\ tree \in {SubSeq(FileUniverse, 1, n) : n \in 0..MaxDocsSmall}
  /\ rootStatus \in RootConfigs
  /\ processedExists \in BOOLEAN
  /\ generateEmbeddings = FALSE
  /\ envModel = ""
  /\ InitBatch
  /\ InitScripts

\* one run over at most MaxDocsSmall documents in which every pending
\* await settles and the script goes on
FairSpec == InitSmall /\ [][Next]_vars /\ WF_vars(Next)

\* values of EMBEDDING_MODEL: unset, a key of the registry, a name that is
\* no property of it, and a name it inherits
ModelIds == {"", "bge-base-zh-v1.5", "no-such-model", "toString"}

InitConfig ==
  /\ tree \in {SubSeq(FileUniverse, 1, n) : n \in 0..MaxDocsSmall}
  /\ rootStatus = <<"ok", "ok">>
  /\ processedExists = TRUE
  /\ generateEmbeddings = FALSE
  /\ envModel \in ModelIds
  /\ InitBatch
  /\ InitScripts

\* one run of the batch script for each value of EMBEDDING_MODEL
SpecConfig == InitConfig /\ [][Next]_vars

NextRerun == Next \/ NewRun

\* the batch script run up to MaxRuns times over the same directories
SpecRerun == InitSmall /\ [][NextRerun]_vars

(***************************************************************************)
(* PDFProcessor.generateEmbedding and initEmbeddingModel.                  *)
(***************************************************************************)
\* the values of EMBEDDING_MODEL the embedding specification starts from
EnvModels == {"", "bge-base-zh-v1.5"}

\* lengths of the vector the loaded model can hand back for profile m
VectorLengths(m) ==
  {EMBEDDING_MODELS[m].dimensions, EMBEDDING_MODELS[m].dimensions \div 2}

\* what `await this.embeddingPipeline(inputText, ..)` can yield: a Tensor
\* with a data field, an array of arrays, a flat array, some other value,
\* or an exception
InferOutcomes(m) ==
  {[kind |-> kd, len |-> n] : kd \in {"tensor", "nested", "flat"},
                              n \in VectorLengths(m)}
    \cup {[kind |-> "other", len |-> 0], [kind |-> "throw", len |-> 0]}

\* generateEmbedding returns a vector for this outcome (else it throws)
ReturnsVector(out) == out.kind \in {"tensor", "nested", "flat"}

\* the prefix generateEmbedding puts before the text
InputText(m, text) == SCat(EMBEDDING_MODELS[m].instruction, text)

\* a chunk loop in which a failed embedding fails the whole document
EmbedFailedFatal(d) ==
  /\ Catch(d, "embedding")
  /\ UNCHANGED loadCalls

\* the catch inside the chunk loop of processPDF: generateEmbedding threw
\* for chunk k of document d, the chunk is pushed without an embedding and
\* the loop goes on
EmbedFailed(d) ==
  /\ Resume(d, w[d].texts,
            Append(w[d].chunks,
                   NewChunk(w[d].texts[w[d].k], w[d].k - 1, files[d],
                            NoEmbedding)),
            w[d].k + 1, w[d].threw \cup {w[d].k})
  /\ UNCHANGED stats

\* pipeline(...) called by initEmbeddingModel for document d settles: the
\* pipeline is stored and generateEmbedding calls it, or loading failed
\* and the error reaches the catch of the chunk loop.
LoadDone(d) ==
  /\ orch = "await"
  /\ w[d].pc = "load"
  /\ \/ /\ embeddingPipeline' = TRUE
        /\ w' = [w EXCEPT ![d] = [@ EXCEPT !.pc = "infer"]]
        /\ UNCHANGED <<stats, loadCalls, faults>>
     \/ /\ faults < MaxFaults
        /\ faults' = faults + 1
        /\ EmbedFailed(d)
        /\ UNCHANGED embeddingPipeline
  /\ UNCHANGED <<envVars, now, fsVars, run, orch, files, i, mapIdx, results,
                 report, embeddingModel, modelConfig, groups, dispatched,
                 pdfCalls, earlier, scriptVars>>

\* this.embeddingPipeline(inputText, ..) awaited by generateEmbedding for
\* document d settles: the vector is stored in the chunk whatever its
\* length, or generateEmbedding throws.
InferDone(d) ==
  /\ orch = "await"
  /\ w[d].pc = "infer"
  /\ \E out \in InferOutcomes(modelConfig) :
       IF ReturnsVector(out)
       THEN /\ Resume(d, w[d].texts,
                      Append(w[d].chunks,
                             NewChunk(w[d].texts[w[d].k], w[d].k - 1,
                                      files[d],
                                      Embedding(out.len, w[d].texts[w[d].k]))),
                      w[d].k + 1, w[d].threw)
            /\ UNCHANGED stats
       ELSE EmbedFailed(d)
  /\ UNCHANGED <<envVars, now, fsVars, run, orch, files, i, mapIdx, results,
                 report, procVars, groups, dispatched, pdfCalls, earlier,
                 faults, scriptVars>>

InitEmbed ==
  /\ tree \in {SubSeq(FileUniverse, 1, n) : n \in 1..MaxEmbedDocs}
  /\ rootStatus = <<"ok", "ok">>
  /\ processedExists = TRUE
  /\ generateEmbeddings = TRUE
  /\ envModel \in EnvModels
  /\ InitBatch
  /\ InitScripts

NextEmbed ==
  \/ Next
  \/ \E d \in Docs : LoadDone(d)
  \/ \E d \in Docs : InferDone(d)

\* one run of the batch script with GENERATE_EMBEDDINGS on
SpecEmbed == InitEmbed /\ [][NextEmbed]_vars

(***************************************************************************)
(* The reprocess script: it scans ./output/processed, deletes the          *)
(* artifacts it flags and runs the batch script.  It starts over the       *)
(* directory that earlier runs have left.                                  *)
(***************************************************************************)
\* a file of ./output/processed that JSON.parse rejects
Corrupt == [corrupt |-> TRUE]

\* the artifact an earlier run with the profile all-MiniLM-L6-v2 has left
\* for document f: complete; with a first chunk that lacks its embedding;
\* or not parseable
EarlierArtifact(kind, f) ==
  LET texts == SubSeq(ChunkTexts, 1, 1)
      emb == IF kind = "good"
             THEN Embedding(EMBEDDING_MODELS["all-MiniLM-L6-v2"].dimensions,
                            texts[1])
             ELSE NoEmbedding
  IN IF kind = "corrupt" THEN Corrupt
     ELSE [filename |-> f.name, totalChunks |-> 1,
           chunks |-> <<NewChunk(texts[1], 0, f, emb)>>,
           embeddingModel |-> EMBEDDING_MODELS["all-MiniLM-L6-v2"].name]

ArtifactKinds == {"good", "unembedded", "corrupt"}

\* needsReprocessing, and the catch of the scan loop for a file that
\* cannot be read or parsed
NeedsReprocessing(data) ==
  \/ "corrupt" \in DOMAIN data
  \/ data.embeddingModel = "BAAI/bge-large-zh-v1.5"
  \/ Len(data.chunks) = 0
  \/ ~data.chunks[1].embedding.present

\* the scan loop over fs.readdirSync(processedDir)
ScanProcessed ==
  {a \in DOMAIN processedDir :
     NameEndsWith(a, ".json") /\ NeedsReprocessing(processedDir[a])}

\* the values of EMBEDDING_MODEL the reprocess script is run with
ReprocModels == {"", "bge-large-zh-v1.5"}

\* earlier runs have left one artifact per document, that of the first
\* document of any kind and the others complete; the script is started
InitReprocess ==
  /\ tree \in {SubSeq(FileUniverse, 1, n) : n \in 1..MaxEmbedDocs}
  /\ rootStatus = <<"ok", "ok">>
  /\ processedExists = TRUE
  /\ generateEmbeddings = TRUE
  /\ envModel \in ReprocModels
  /\ outputDir = {<<"processed">>}
  /\ \E kind \in ArtifactKinds :
       processedDir =
         [a \in {OutputFilename(0, tree[x]) : x \in DOMAIN tree} |->
            LET x == CHOOSE y \in DOMAIN tree : OutputFilename(0, tree[y]) = a
            IN EarlierArtifact(IF x = 1 THEN kind ELSE "good", tree[x])]
  /\ now = 1
  /\ run = 1
  /\ orch = "returned"
  /\ files = <<>>
  /\ i = 0
  /\ mapIdx = 0
  /\ stats = InitStats
  /\ results = <<>>
  /\ report = <<>>
  /\ w = <<>>
  /\ embeddingModel = CtorEmbeddingModel(envModel)
  /\ modelConfig = CtorModelConfig(envModel)
  /\ embeddingPipeline = FALSE
  /\ loadCalls = 0
  /\ groups = <<>>
  /\ dispatched = <<>>
  /\ pdfCalls = <<>>
  /\ earlier = {}
  /\ faults = 0
  /\ InitOpt
  /\ InitFilter
  /\ InitClean
  /\ reproc = "start"
  /\ failedFiles = {}

\* the script from its start to execSync: the scan, process.exit(0) when
\* nothing is flagged, else the unlinkSync loop, in which at most MaxFaults
\* deletions fail, and the start of the batch script, which constructs a
\* BatchProcessor and a PDFProcessor
Reprocess ==
  /\ reproc = "start"
  /\ failedFiles' = ScanProcessed
  /\ IF ScanProcessed = {}
     THEN /\ reproc' = "exit0"
          /\ UNCHANGED <<now, fsVars, batchVars, procVars, histVars>>
     ELSE /\ reproc' = "exec"
          /\ \E kept \in SUBSET ScanProcessed :
               /\ Cardinality(kept) <= MaxFaults
               /\ processedDir' =
                    [a \in (DOMAIN processedDir \ ScanProcessed) \cup kept |->
                       processedDir[a]]
               /\ earlier' = (DOMAIN processedDir \ ScanProcessed) \cup kept
               /\ faults' = Cardinality(kept)
          /\ run' = run + 1
          /\ now' = Tick(now)
          /\ orch' = "init"
          /\ files' = <<>>
          /\ i' = 0
          /\ mapIdx' = 0
          /\ stats' = InitStats
          /\ results' = <<>>
          /\ report' = <<>>
          /\ w' = <<>>
          /\ embeddingModel' = CtorEmbeddingModel(envModel)
          /\ modelConfig' = CtorModelConfig(envModel)
          /\ embeddingPipeline' = FALSE
          /\ loadCalls' = 0
          /\ groups' = <<>>
          /\ dispatched' = <<>>
          /\ pdfCalls' = <<>>
          /\ UNCHANGED <<outputDir, processedExists>>
  /\ UNCHANGED <<envVars, optVars, filterVars, cleanVars>>

\* execSync returns: the batch script has ended and the script ends
ReprocessEnd ==
  /\ reproc = "exec"
  /\ orch \in {"done", "returned"}
  /\ reproc' = "done"
  /\ UNCHANGED <<envVars, now, fsVars, batchVars, procVars, histVars,
                 optVars, filterVars, cleanVars, failedFiles>>

NextReprocess == NextEmbed \/ Reprocess \/ ReprocessEnd

\* one run of the reprocess script with GENERATE_EMBEDDINGS on
SpecReprocess == InitReprocess /\ [][NextReprocess]_vars

(***************************************************************************)
(* The optimizer script: optimizeChunks and splitLongContent.              *)
(***************************************************************************)
\* short chunks joined with nothing between them
SeparatorNone == <<>>

\* const SEPARATOR = ' '
SEPARATOR == Str(" ", 1)

\* metadata of a chunk as processPDF writes it; "absent" and 0 stand for
\* a field that the object does not have
ChunkMeta(idx) ==
  [chunkIndex |-> idx, source |-> "doc", merged |-> "absent",
   mergedCount |-> 0, split |-> "absent", splitPart |-> 0, totalParts |-> 0]

\* a chunk of a processed file
InChunk(content, idx) ==
  [content |-> content,
   embedding |-> IF content = <<>> THEN NoEmbedding
                 ELSE Embedding(384, content),
   metadata |-> ChunkMeta(idx)]

\* the punctuation splitLongContent puts back after a sentence: the first
\* of the four marks with which the sentence occurs somewhere in content
PunctuationOf(content, sentence) ==
  IF SIncludes(content, SCat(sentence, Str("U3002", 1))) THEN Str("U3002", 1)
  ELSE IF SIncludes(content, SCat(sentence, Str("UFF01", 1)))
       THEN Str("UFF01", 1)
  ELSE IF SIncludes(content, SCat(sentence, Str("UFF1F", 1)))
       THEN Str("UFF1F", 1)
  ELSE IF SIncludes(content, SCat(sentence, Str("UFF1B", 1)))
       THEN Str("UFF1B", 1)
  ELSE <<>>

RECURSIVE SplitLoop(_, _, _, _, _)
\* the loop of splitLongContent over the sentences left
SplitLoop(content, sentences, parts, currentPart, maxLength) ==
  IF sentences = <<>>
  THEN IF SLen(STrim(currentPart)) > 0
       THEN Append(parts, STrim(currentPart)) ELSE parts
  ELSE LET sentence == Head(sentences)
           withPunctuation == SCat(sentence, PunctuationOf(content, sentence))
       IN IF SLen(STrim(sentence)) = 0
          THEN SplitLoop(content, Tail(sentences), parts, currentPart,
                         maxLength)
          ELSE IF SLen(currentPart) + SLen(withPunctuation) <= maxLength
          THEN SplitLoop(content, Tail(sentences), parts,
                         SCat(currentPart, withPunctuation), maxLength)
          ELSE SplitLoop(content, Tail(sentences),
                         IF SLen(STrim(currentPart)) > 0
                         THEN Append(parts, STrim(currentPart)) ELSE parts,
                         withPunctuation, maxLength)

\* splitLongContent(content, maxLength)
SplitLongContent(content, maxLength) ==
  LET parts == SplitLoop(content, SSplit(content, <<>>), <<>>, <<>>,
                         maxLength)
  IN IF Len(parts) > 0 THEN parts ELSE <<SPrefix(content, maxLength)>>

\* chunkIndex: optimized.length, taken from the input position instead
NextIndexStale(optimized, chunk) == chunk.metadata.chunkIndex

\* chunkIndex: optimized.length
NextIndex(optimized, chunk) == Len(optimized)

\* contentLength < MIN_CHUNK_LENGTH
IsShort(contentLength) == contentLength < MIN_CHUNK_LENGTH

\* the object built for currentChunk from an input chunk
Current(chunk, optimized, merged) ==
  [content |-> chunk.content, embedding |-> chunk.embedding,
   metadata |-> [chunk.metadata EXCEPT
                   !.chunkIndex = NextIndex(optimized, chunk),
                   !.merged = IF merged THEN "true" ELSE "false"]]

RECURSIVE PushParts(_, _, _, _)
\* the loop that pushes the parts of an over-long chunk
PushParts(optimized, chunk, parts, j) ==
  IF j > Len(parts) THEN optimized
  ELSE PushParts(
         Append(optimized,
                [content |-> parts[j], embedding |-> chunk.embedding,
                 metadata |-> [chunk.metadata EXCEPT
                                 !.chunkIndex = NextIndex(optimized, chunk),
                                 !.split = "true", !.splitPart = j,
                                 !.totalParts = Len(parts)]]),
         chunk, parts, j + 1)

\* optimized.push(currentChunk) when there is a currentChunk (cur is the
\* empty sequence for null)
Flush(optimized, cur) == optimized \o cur

\* the state of optimizeChunks before its loop
OptStart(st) ==
  [optimized |-> <<>>, cur |-> <<>>, mergedCount |-> 0, statistics |-> st]

\* one iteration of the loop of optimizeChunks
OptStep(s, chunk) ==
  IF SLen(chunk.content) = 0 \/ SLen(STrim(chunk.content)) = 0
  THEN [s EXCEPT !.statistics.removedChunks = @ + 1]
  ELSE LET contentLength == SLen(STrim(chunk.content)) IN
    IF IsShort(contentLength)
    THEN IF s.cur # <<>>
         THEN LET combinedContent ==
                    SCat(SCat(s.cur[1].content, SEPARATOR), chunk.content)
              IN IF SLen(combinedContent) <= MAX_CHUNK_LENGTH
                 THEN [s EXCEPT !.cur[1].content = combinedContent,
                                !.mergedCount = @ + 1,
                                !.statistics.mergedChunks = @ + 1]
                 ELSE [s EXCEPT
                         !.optimized = Flush(s.optimized, s.cur),
                         !.cur = <<Current(chunk, Flush(s.optimized, s.cur),
                                           FALSE)>>]
         ELSE [s EXCEPT !.cur = <<Current(chunk, s.optimized, FALSE)>>]
    ELSE IF contentLength <= MAX_CHUNK_LENGTH
    THEN LET flushed == Flush(s.optimized, s.cur)
             new == Current(chunk, flushed, s.mergedCount > 0)
         IN [s EXCEPT
               !.optimized = flushed,
               !.cur = <<IF s.mergedCount > 0
                         THEN [new EXCEPT
                                 !.metadata.mergedCount = s.mergedCount]
                         ELSE new>>,
               !.mergedCount = 0]
    ELSE [s EXCEPT
            !.optimized =
               PushParts(Flush(s.optimized, s.cur), chunk,
                         SplitLongContent(chunk.content, MAX_CHUNK_LENGTH), 1),
            !.cur = <<>>]

RECURSIVE OptLoop(_, _)
OptLoop(s, chunks) ==
  IF chunks = <<>> THEN s ELSE OptLoop(OptStep(s, Head(chunks)), Tail(chunks))

\* the end of optimizeChunks: the last currentChunk is pushed, or merged
\* into the last pushed chunk when it is short
OptFinish(s) ==
  IF s.cur = <<>> THEN s
  ELSE IF SLen(STrim(s.cur[1].content)) < MIN_CHUNK_LENGTH
          /\ Len(s.optimized) > 0
  THEN LET n == Len(s.optimized)
           combinedContent ==
             SCat(SCat(s.optimized[n].content, SEPARATOR), s.cur[1].content)
       IN IF SLen(combinedContent) <= MAX_CHUNK_LENGTH
          THEN [s EXCEPT !.optimized[n].content = combinedContent,
                         !.optimized[n].metadata.merged = "true",
                         !.statistics.mergedChunks = @ + 1]
          ELSE [s EXCEPT !.optimized = Flush(s.optimized, s.cur)]
  ELSE [s EXCEPT !.optimized = Flush(s.optimized, s.cur)]

\* optimizeChunks(chunks) with the global counters st: the returned
\* chunks and the counters afterwards
OptimizeChunks(chunks, st) ==
  IF Len(chunks) = 0 THEN [optimized |-> <<>>, statistics |-> st]
  ELSE LET s == OptFinish(OptLoop(OptStart(st), chunks))
       IN [optimized |-> s.optimized, statistics |-> s.statistics]

\* contents a chunk handed to the optimizer can have: none, blank, short,
\* of the minimal and of the maximal length, short within blanks, long
\* enough to overflow a merge, and over-long without and with sentence
\* terminators
OptContents ==
  { <<>>,
    Str(" ", 3),
    Str("a", 30),
    Str("b", MIN_CHUNK_LENGTH),
    Str("c", MAX_CHUNK_LENGTH),
    SCat(Str(" ", 10), Str("h", 45)),
    Str("d", MAX_CHUNK_LENGTH - 10),
    Str("e", MAX_CHUNK_LENGTH + 1),
    SCat(SCat(Str("f", 5000), Str("U3002", 1)),
         SCat(Str("g", 5000), Str("U3002", 1))) }

RECURSIVE ChunkSeqs(_)
\* the chunk sequences of length n over OptContents, indexed as written
\* by processPDF
ChunkSeqs(n) ==
  IF n = 0 THEN {<<>>}
  ELSE {Append(cs, InChunk(c, n - 1)) : cs \in ChunkSeqs(n - 1),
                                         c \in OptContents}

\* lengths below MIN_CHUNK_LENGTH for the chunks of a run of short chunks
ShortLengths == {25, 30, MIN_CHUNK_LENGTH - 1}

\* n chunks of len characters each, indexed as written by processPDF
ShortRun(n, len) == [k \in 1..n |-> InChunk(Str("a", len), k - 1)]

\* the runs of up to MaxShortRun short chunks of equal length
ShortRuns == {ShortRun(n, len) : n \in 1..MaxShortRun, len \in ShortLengths}

InitOptimizer ==
  /\ tree = <<>>
  /\ rootStatus = <<"ok", "ok">>
  /\ processedExists = TRUE
  /\ generateEmbeddings = FALSE
  /\ envModel = ""
  /\ InitBatch
  /\ optIn \in UNION {ChunkSeqs(n) : n \in 0..MaxOptLen} \cup ShortRuns
  /\ optOut = <<>>
  /\ optDone = 0
  /\ statistics = InitStatistics
  /\ optimization = <<>>
  /\ InitFilter
  /\ InitClean
  /\ InitReproc

\* one iteration of the main loop of the script for a file with these
\* chunks: a file without chunks is skipped; else the chunks are optimized
\* and the file is written with its optimization record
OptimizeFile(chunks, st) ==
  LET counted == [st EXCEPT !.totalFiles = @ + 1] IN
  IF Len(chunks) = 0
  THEN [written |-> FALSE, chunks |-> <<>>, optimization |-> <<>>,
        statistics |-> [counted EXCEPT !.skippedFiles = @ + 1]]
  ELSE LET r == OptimizeChunks(chunks,
                  [counted EXCEPT !.originalChunks = @ + Len(chunks)])
           after == [r.statistics EXCEPT
                       !.optimizedChunks = @ + Len(r.optimized)]
       IN [written |-> TRUE, chunks |-> r.optimized,
           optimization |->
             [originalChunks |-> Len(chunks),
              optimizedChunks |-> Len(r.optimized),
              mergedChunks |-> after.mergedChunks,
              removedChunks |-> after.removedChunks],
           statistics |-> [after EXCEPT !.processedFiles = @ + 1]]

\* the main loop of the script handles its first file
Optimize ==
  /\ optDone = 0
  /\ LET r == OptimizeFile(optIn, statistics) IN
       /\ optOut' = r.chunks
       /\ optimization' = r.optimization
       /\ statistics' = r.statistics
  /\ optDone' = 1
  /\ UNCHANGED <<envVars, now, fsVars, batchVars, procVars, histVars, optIn,
                 filterVars, cleanVars, reprocVars>>

\* the files that can follow the first one in ./output/processed: two
\* short chunks; an empty and an in-range chunk; an over-long chunk
NextFiles ==
  { ShortRun(2, 30),
    <<InChunk(<<>>, 0), InChunk(Str("b", MIN_CHUNK_LENGTH), 1)>>,
    <<InChunk(SCat(SCat(Str("f", 5000), Str("U3002", 1)),
                   SCat(Str("g", 5000), Str("U3002", 1))), 0)>> }

\* the main loop goes on to the next file, with the counters as they are
OptimizeNext ==
  /\ optDone = 1
  /\ statistics.totalFiles < MaxOptFiles
  /\ \E chunks \in NextFiles :
       LET r == OptimizeFile(chunks, statistics) IN
         /\ optIn' = chunks
         /\ optOut' = r.chunks
         /\ optimization' = r.optimization
         /\ statistics' = r.statistics
  /\ UNCHANGED <<envVars, now, fsVars, batchVars, procVars, histVars, optDone,
                 filterVars, cleanVars, reprocVars>>

\* the script is run again, on the file it wrote last
Reoptimize ==
  /\ optDone \in 1..(MaxOptRuns - 1)
  /\ optIn' = optOut
  /\ LET r == OptimizeFile(optOut, InitStatistics) IN
       /\ optOut' = r.chunks
       /\ optimization' = r.optimization
       /\ statistics' = r.statistics
  /\ optDone' = optDone + 1
  /\ UNCHANGED <<envVars, now, fsVars, batchVars, procVars, histVars,
                 filterVars, cleanVars, reprocVars>>

NextOpt == Optimize \/ OptimizeNext \/ Reoptimize

\* optimizeChunks applied to every chunk sequence of at most MaxOptLen
\* chunks, and again to its result
SpecOpt == InitOptimizer /\ [][NextOpt]_vars

(***************************************************************************)
(* The content filter scripts: content-filter.js (basic), the smart and    *)
(* the enhanced filter.  A chunk content is a run-length string over       *)
(* letters, the blank, U3002 and UFF1B (ideographic full stop, fullwidth   *)
(* semicolon), the dash "-" and atoms, fixed pieces of text written as     *)
(* one token: KW and KW2 (the keywords U+6570 U+5B66 and U+76EE U+5F55),   *)
(* READ and LIKE (a read count and a like count with one digit), COPY and  *)
(* SOHU (the copyright and the platform notice, without a closing full     *)
(* stop), CR (the four characters of "all rights reserved") and WX (the    *)
(* promotion sentence, which holds the keyword U+5B66 U+4E60).  A run of   *)
(* an atom holds its characters: n is a multiple of Width.  Contents hold  *)
(* no line break: cleanText turns every white space into one blank.        *)
(***************************************************************************)
Width(c) ==
  CASE c \in {"KW", "KW2"} -> 2
    [] c \in {"PUB", "AUTH", "PAGE"} -> 3
    [] c = "PRESS" -> 5
    [] c = "CR" -> 4
    [] c \in {"READ", "LIKE"} -> 5
    [] c = "WX" -> 16
    [] c = "SOHU" -> 48
    [] c = "COPY" -> 72
    [] OTHER -> 1

\* distinct characters in one atom or character
DistinctIn(c) ==
  CASE c \in {"KW", "KW2"} -> 2
    [] c = "CR" -> 4
    [] c \in {"READ", "LIKE"} -> 5
    [] c = "WX" -> 16
    [] c = "SOHU" -> 39
    [] c = "COPY" -> 55
    [] OTHER -> 1

\* characters of one atom or character outside [\u4e00-\u9fa5\w\s]
SpecialIn(c) ==
  CASE c \in {"U3002", "UFF1B", "-"} -> 1
    [] c \in {"READ", "LIKE"} -> 2
    [] c = "WX" -> 1
    [] c = "SOHU" -> 4
    [] c = "COPY" -> 5
    [] OTHER -> 0

RECURSIVE Atoms(_, _)
\* (s.match(new RegExp(atom, 'g')) || []).length
Atoms(s, c) ==
  IF s = <<>> THEN 0
  ELSE (IF Head(s).c = c THEN Head(s).n \div Width(c) ELSE 0)
       + Atoms(Tail(s), c)

\* the characters and atoms that occur in s
Alphabet(s) == {s[x].c : x \in DOMAIN s}

RECURSIVE SumOver(_, _)
SumOver(S, f) ==
  IF S = {} THEN 0
  ELSE LET c == CHOOSE x \in S : TRUE IN f[c] + SumOver(S \ {c}, f)

\* new Set(s.replace(/\s/g, '')).size
UniqueChars(s) ==
  LET cs == {c \in Alphabet(s) : ~IsSpace(c)}
  IN SumOver(cs, [c \in cs |-> DistinctIn(c)])

RECURSIVE SpecialChars(_)
\* (s.match(/[^\u4e00-\u9fa5\w\s]/g) || []).length
SpecialChars(s) ==
  IF s = <<>> THEN 0
  ELSE SpecialIn(Head(s).c) * (Head(s).n \div Width(Head(s).c))
       + SpecialChars(Tail(s))

RECURSIVE Norm(_)
\* the same string with adjacent runs of one character joined
Norm(s) == IF s = <<>> THEN <<>> ELSE SCat(<<Head(s)>>, Norm(Tail(s)))

RECURSIVE Collapse(_)
\* s.replace(/\s+/g, ' ')
Collapse(s) ==
  IF s = <<>> THEN <<>>
  ELSE IF IsSpace(Head(s).c)
       THEN <<Run(" ", 1)>> \o Collapse(DropSpaceLeft(Tail(s)))
       ELSE <<Head(s)>> \o Collapse(Tail(s))

\* s.replace(/\s+/g, ' ').trim()
CollapseTrim(s) == Norm(STrim(Collapse(s)))

\* s.replace(/READ|LIKE/g, ''): the counts of the set cs are cut out
RemoveAtoms(s, cs) == SelectSeq(s, LAMBDA r : r.c \notin cs)

RECURSIVE RemoveBlocks(_)
\* the two notices are cut out, each with the full stop that follows it
RemoveBlocks(s) ==
  IF s = <<>> THEN <<>>
  ELSE IF Head(s).c \in {"COPY", "SOHU"}
       THEN IF Len(s) > 1 /\ s[2].c = "U3002"
            THEN RemoveBlocks(Str("U3002", s[2].n - 1) \o Tail(Tail(s)))
            ELSE RemoveBlocks(Tail(s))
       ELSE <<Head(s)>> \o RemoveBlocks(Tail(s))

\* every character of s lies in the class cs or is white space
OnlyOf(s, cs) == \A x \in DOMAIN s : s[x].c \in cs \/ IsSpace(s[x].c)

\* the three filter scripts
FilterVariants == {"basic", "smart", "enhanced"}

\* educationalKeywords.some(keyword => content.includes(keyword)); the
\* list of the enhanced script also holds KW2
HasEducationalContent(v, s) ==
  {"KW", "WX"} \cap Alphabet(s) # {}
    \/ (v = "enhanced" /\ "KW2" \in Alphabet(s))

\* the anchored patterns that the smart and the enhanced script share:
\* a content that starts with a notice, a lone count, blanks only,
\* punctuation only, dashes only
MatchesExact(t) ==
  \/ t # <<>> /\ Head(t).c \in {"COPY", "SOHU"}
  \/ t \in {Str("READ", 5), Str("LIKE", 5)}
  \/ OnlyOf(t, {})
  \/ OnlyOf(t, {"U3002", "UFF1B"})
  \/ OnlyOf(t, {"-"})

\* ALL_PATTERNS of content-filter.js, tested anywhere in the content
MatchesAny(t) ==
  \/ {"COPY", "SOHU", "READ", "LIKE"} \cap Alphabet(t) # {}
  \/ Atoms(t, "WX") >= 2
  \/ OnlyOf(t, {})
  \/ OnlyOf(t, {"U3002"})
  \/ OnlyOf(t, {"-"})

\* the phrases loop of the enhanced script: a phrase that occurs more than
\* 3 times and fills more than half of the content
PhraseFlood(t) ==
  \E p \in {[atom |-> "WX", len |-> 7], [atom |-> "WX", len |-> 8],
            [atom |-> "CR", len |-> 4]} :
     /\ Atoms(t, p.atom) > 3
     /\ 2 * Atoms(t, p.atom) * p.len > SLen(t)

\* the patterns the enhanced script adds: the promotion twice from the
\* start, "all rights reserved" three times
MatchesRepeated(t) ==
  \/ t # <<>> /\ Head(t).c = "WX" /\ Atoms(t, "WX") >= 2
  \/ Atoms(t, "CR") >= 3

\* shouldFilterContent(content) of script v
ShouldFilterContent(v, content) ==
  \/ content = <<>>
  \/ LET trimmedContent == STrim(content) IN
       CASE v = "basic" ->
              \/ SLen(trimmedContent) < 10
              \/ MatchesAny(trimmedContent)
              \/ 2 * SpecialChars(trimmedContent) > SLen(trimmedContent)
              \/ UniqueChars(trimmedContent) < 5
                   /\ SLen(trimmedContent) > 20
         [] v = "smart" ->
              \/ SLen(trimmedContent) < 5
              \/ MatchesExact(trimmedContent)
         [] v = "enhanced" ->
              \/ SLen(trimmedContent) < 10
              \/ PhraseFlood(trimmedContent)
              \/ MatchesExact(trimmedContent)
              \/ MatchesRepeated(trimmedContent)

\* index of the next run after j that is not white space, 0 if none
NextText(s, j) ==
  IF \E m \in (j + 1)..Len(s) : ~IsSpace(s[m].c)
  THEN CHOOSE m \in (j + 1)..Len(s) :
         ~IsSpace(s[m].c) /\ \A x \in (j + 1)..(m - 1) : IsSpace(s[x].c)
  ELSE 0

\* run j ends in a promotion that another promotion follows, with at most
\* white space between them
PromotionPair(s, j) ==
  /\ s[j].c = "WX"
  /\ \/ s[j].n >= 2 * Width("WX")
     \/ NextText(s, j) # 0 /\ s[NextText(s, j)].c = "WX"

RECURSIVE RemovePromotions(_)
\* s.replace(/(WX\s*){2,}/g, '') where WX = promotion start .*? promotion
\* end: a match starts at the first promotion, its first repetition
\* reaches to the first promotion that is followed by another one, and it
\* goes on over promotions and white space
RemovePromotions(s) ==
  IF s = <<>> THEN <<>>
  ELSE IF Head(s).c # "WX" THEN <<Head(s)>> \o RemovePromotions(Tail(s))
  ELSE IF \E j \in DOMAIN s : PromotionPair(s, j)
       THEN LET j == CHOOSE x \in DOMAIN s :
                       PromotionPair(s, x)
                       /\ \A y \in 1..(x - 1) : ~PromotionPair(s, y)
                end == CHOOSE m \in j..Len(s) :
                         /\ \A x \in j..m : s[x].c = "WX" \/ IsSpace(s[x].c)
                         /\ m = Len(s)
                            \/ ~(s[m + 1].c = "WX" \/ IsSpace(s[m + 1].c))
            IN RemovePromotions(SubSeq(s, end + 1, Len(s)))
       ELSE s

\* s.replace(/(.*?CR\s*){3,}/g, ''): with three or more CR everything up to
\* the last one and the white space after it goes
RemoveRights(s) ==
  IF Atoms(s, "CR") >= 3
  THEN LET last == CHOOSE j \in DOMAIN s :
                     s[j].c = "CR" /\ \A x \in (j + 1)..Len(s) : s[x].c # "CR"
       IN DropSpaceLeft(SubSeq(s, last + 1, Len(s)))
  ELSE s

RECURSIVE RemoveToStop(_, _, _)
\* s.replace(/BLOCK[^U3002]*U3002/g, '') for the blocks in cs: from the
\* block to the next full stop; atEnd says whether the end of the content
\* closes a match as well (the full stop is optional)
RemoveToStop(s, cs, atEnd) ==
  IF s = <<>> THEN <<>>
  ELSE IF Head(s).c \in cs
       THEN IF \E j \in DOMAIN s : s[j].c = "U3002"
            THEN LET j == CHOOSE x \in DOMAIN s :
                            s[x].c = "U3002"
                            /\ \A y \in 1..(x - 1) : s[y].c # "U3002"
                 IN RemoveToStop(Str("U3002", s[j].n - 1)
                                   \o SubSeq(s, j + 1, Len(s)), cs, atEnd)
            ELSE IF atEnd THEN <<>> ELSE s
       ELSE <<Head(s)>> \o RemoveToStop(Tail(s), cs, atEnd)

\* cleanContent(content) of script v
CleanContent(v, content) ==
  CollapseTrim(
    CASE v = "basic" ->
           RemoveAtoms(RemoveToStop(RemoveToStop(content, {"COPY"}, FALSE),
                                    {"SOHU"}, TRUE),
                       {"READ", "LIKE"})
      [] v = "smart" -> RemoveAtoms(RemoveBlocks(content), {"READ", "LIKE"})
      [] v = "enhanced" ->
           RemoveAtoms(RemoveBlocks(RemoveRights(RemovePromotions(content))),
                       {"READ", "LIKE"}))

RECURSIVE Words(_, _)
\* s.split(/\s+/) of a trimmed s, with cur the word collected so far
Words(s, cur) ==
  IF s = <<>> THEN <<cur>>
  ELSE IF IsSpace(Head(s).c) THEN <<cur>> \o Words(DropSpaceLeft(s), <<>>)
  ELSE Words(Tail(s), cur \o <<Head(s)>>)

\* assessContentQuality(content) of the enhanced script
AssessContentQuality(content) ==
  LET trimmedContent == STrim(content)
      words == Words(trimmedContent, <<>>)
      repeated == Len(words) - Cardinality(Range(words))
  IN IF content = <<>> THEN 0
     ELSE IF SLen(trimmedContent) < 20 THEN 0
     ELSE IF HasEducationalContent("enhanced", trimmedContent) THEN 3
     ELSE IF UniqueChars(trimmedContent) < 5 THEN 0
     ELSE IF 10 * repeated > 8 * Len(words) THEN 0
     ELSE IF 10 * repeated > 6 * Len(words) THEN 1
     ELSE 2

\* metadata of a chunk before filtering; "absent" and -1 stand for a field
\* that the object does not have
FilterMeta(idx) ==
  [chunkIndex |-> idx, source |-> "doc", filtered |-> "absent",
   contentPreserved |-> "absent", contentCleaned |-> "absent",
   qualityScore |-> -1, originalLength |-> -1, cleanedLength |-> -1]

\* a chunk of a file in ./output/optimized
FilterChunk(content, idx) ==
  [content |-> content,
   embedding |-> IF content = <<>> THEN NoEmbedding
                 ELSE Embedding(384, content),
   metadata |-> FilterMeta(idx)]

\* the counters and the list of filterFile before its loop
FilterStart == [filteredChunks |-> <<>>, removedCount |-> 0, cleanedCount |-> 0]

\* removedCount++ of shouldFilterContent
RemoveOutright(acc) == [acc EXCEPT !.removedCount = @ + 1]

\* a chunk dropped after cleaning without being counted
RemoveUncounted(acc) == acc

\* removedCount++ for a chunk that is dropped after cleaning
RemoveAfterCleaning(acc) == [acc EXCEPT !.removedCount = @ + 1]

\* the survivor pushed with the content as rewritten by cleanContent
KeepCleaned(v, acc, chunk, cleanedContent, qualityScore) ==
  LET wasContentCleaned == cleanedContent # chunk.content
      meta == [chunk.metadata EXCEPT
                 !.originalLength = SLen(chunk.content),
                 !.cleanedLength = SLen(cleanedContent)]
  IN [acc EXCEPT
        !.filteredChunks =
           Append(@, [chunk EXCEPT
                        !.content = cleanedContent,
                        !.metadata =
                           IF v = "basic"
                           THEN [meta EXCEPT !.filtered = "true"]
                           ELSE [meta EXCEPT
                                   !.contentCleaned =
                                      IF wasContentCleaned THEN "true"
                                      ELSE "false",
                                   !.qualityScore = qualityScore]]),
        !.cleanedCount =
           IF v # "basic" /\ wasContentCleaned THEN @ + 1 ELSE @]

\* the survivor pushed by the smart script with its content as it was
KeepPreserved(acc, chunk) ==
  [acc EXCEPT
     !.filteredChunks =
        Append(@, [chunk EXCEPT !.metadata.contentPreserved = "true"])]

\* one iteration of the loop of filterFile of script v
FilterStep(v, acc, chunk) ==
  IF ShouldFilterContent(v, chunk.content) THEN RemoveOutright(acc)
  ELSE LET cleanedContent == CleanContent(v, chunk.content) IN
    CASE v = "basic" ->
           IF SLen(cleanedContent) >= 20
           THEN KeepCleaned(v, acc, chunk, cleanedContent, -1)
           ELSE RemoveAfterCleaning(acc)
      [] v = "smart" ->
           IF SLen(cleanedContent) < 20
           THEN IF HasEducationalContent(v, chunk.content)
                THEN KeepPreserved(acc, chunk)
                ELSE RemoveAfterCleaning(acc)
           ELSE KeepCleaned(v, acc, chunk, cleanedContent, -1)
      [] v = "enhanced" ->
           LET qualityScore == AssessContentQuality(cleanedContent) IN
             IF qualityScore = 0 THEN RemoveAfterCleaning(acc)
             ELSE KeepCleaned(v, acc, chunk, cleanedContent, qualityScore)

RECURSIVE FilterLoop(_, _, _)
FilterLoop(v, acc, chunks) ==
  IF chunks = <<>> THEN acc
  ELSE FilterLoop(v, FilterStep(v, acc, Head(chunks)), Tail(chunks))

\* survivors that keep the chunkIndex they came with
KeepIndex(filteredChunks) == filteredChunks

\* filteredChunks.forEach((chunk, index) => chunk.metadata.chunkIndex = index)
Reindex(filteredChunks) ==
  [k \in DOMAIN filteredChunks |->
     [filteredChunks[k] EXCEPT !.metadata.chunkIndex = k - 1]]

\* what filterFile returns when it gives up: all counts 0
FilterNothing == [original |-> 0, filtered |-> 0, removed |-> 0, cleaned |-> 0]

\* filterFile of script v on a file with these chunks, when reading and
\* writing succeed: the file as written and the counts returned; a file
\* without chunks is left as it is
FilterFile(v, chunks) ==
  IF Len(chunks) = 0
  THEN [written |-> FALSE, chunks |-> chunks, totalChunks |-> Len(chunks),
        ret |-> FilterNothing]
  ELSE LET acc == FilterLoop(v, FilterStart, chunks)
           filteredChunks == Reindex(acc.filteredChunks)
       IN [written |-> TRUE, chunks |-> filteredChunks,
           totalChunks |-> Len(filteredChunks),
           ret |-> [original |-> Len(chunks),
                    filtered |-> Len(filteredChunks),
                    removed |-> acc.removedCount,
                    cleaned |-> IF v = "basic" THEN 0
                                ELSE acc.cleanedCount]]

\* letters a to e, n of each: text without keyword and without noise
Prose(n) ==
  SCat(SCat(SCat(Str("a", n), Str("b", n)), SCat(Str("c", n), Str("d", n))),
       Str("e", n))

\* contents a chunk handed to a filter can have
FilterContents ==
  { <<>>,
    Str("a", 4),
    Prose(6),
    SCat(Str("KW", 2), Prose(2)),
    SCat(Prose(1), Str("KW", 2)),
    Str("READ", 5),
    SCat(Prose(5), Str("READ", 5)),
    Str("a", 25),
    SCat(Str("KW", 2), Str("a", 25)),
    Str("CR", 16),
    Str("U3002", 12),
    SCat(SCat(Str("WX", 32), Str(" ", 1)), Prose(5)),
    SCat(SCat(Prose(3), Str("WX", 32)), Prose(1)),
    SCat(Prose(5), SCat(Str(" ", 2), Prose(1))) }

RECURSIVE FilterSeqs(_)
\* the chunk sequences of length n over FilterContents
FilterSeqs(n) ==
  IF n = 0 THEN {<<>>}
  ELSE {Append(cs, FilterChunk(c, n - 1)) : cs \in FilterSeqs(n - 1),
                                            c \in FilterContents}

InitFilterScript ==
  /\ tree = <<>>
  /\ rootStatus = <<"ok", "ok">>
  /\ processedExists = TRUE
  /\ generateEmbeddings = FALSE
  /\ envModel = ""
  /\ InitBatch
  /\ InitOpt
  /\ InitClean
  /\ InitReproc
  /\ filtVariant \in FilterVariants
  /\ filtIn \in UNION {FilterSeqs(n) : n \in 0..MaxFiltLen}
  /\ filtOut = <<>>
  /\ filtDone = FALSE

\* filterFile(filePath) of the script filtVariant: the file is rewritten
\* and the counts are returned, or reading, parsing or writing throws and
\* the catch returns zero counts, the file being left as it was
RunFilterFile ==
  /\ ~filtDone
  /\ \/ filtOut' = FilterFile(filtVariant, filtIn)
     \/ filtOut' = [written |-> FALSE, chunks |-> filtIn,
                    totalChunks |-> Len(filtIn), ret |-> FilterNothing]
  /\ filtDone' = TRUE
  /\ UNCHANGED <<envVars, now, fsVars, batchVars, procVars, histVars,
                 optVars, cleanVars, reprocVars,
                 filtVariant, filtIn>>

NextFilter == RunFilterFile

\* each filter script applied to every file of at most MaxFiltLen chunks
SpecFilter == InitFilterScript /\ [][NextFilter]_vars

\* the splitter stage and the filter stage side by side: a batch run
\* without embeddings, and each filter script applied to a file
SpecStages ==
  (Init \/ InitFilterScript) /\ [][Next \/ NextFilter]_vars

(***************************************************************************)
(* PDFProcessor.cleanText.  The text of a PDF is a run-length string over  *)
(* letters, the digit "9", the blank, LF, the character "W" (one that the  *)
(* garble test counts), U3002, and the atoms PUB (the three characters of  *)
(* "publishing house"), PRESS (the word Press), CR (the four characters    *)
(* of "all rights reserved"), AUTH (the two characters of "author" and a   *)
(* fullwidth colon) and PAGE (a page mark: ordinal prefix, one digit, the  *)
(* character for page).  The line patterns are applied to the text that    *)
(* the first white-space step has produced; they are modelled line by      *)
(* line, for the lines that this text has.                                 *)
(***************************************************************************)
RECURSIVE Lines(_, _)
\* the lines of s: s.split('\n'), with cur the line collected so far
Lines(s, cur) ==
  IF s = <<>> THEN <<cur>>
  ELSE IF Head(s).c = "LF"
       THEN <<cur>> \o
            Lines(IF Head(s).n = 1 THEN Tail(s)
                  ELSE <<Run("LF", Head(s).n - 1)>> \o Tail(s), <<>>)
       ELSE Lines(Tail(s), cur \o <<Head(s)>>)

RECURSIVE JoinLines(_)
\* lines.join('\n')
JoinLines(ls) ==
  IF Len(ls) = 1 THEN Head(ls)
  ELSE SCat(SCat(Head(ls), Str("LF", 1)), JoinLines(Tail(ls)))

RECURSIVE SquashStretch(_, _)
\* s.replace(/\n\s*\n/g, '\n'), with ws the white space collected so far:
\* in a stretch of white space with two or more line feeds, everything
\* from the first to the last line feed becomes one line feed
SquashStretch(s, ws) ==
  IF s # <<>> /\ IsSpace(Head(s).c)
  THEN SquashStretch(Tail(s), ws \o <<Head(s)>>)
  ELSE (IF Atoms(ws, "LF") >= 2
        THEN (IF Head(ws).c = " " THEN <<Head(ws)>> ELSE <<>>)
               \o Str("LF", 1)
               \o (IF Last(ws).c = " " THEN <<Last(ws)>> ELSE <<>>)
        ELSE ws)
       \o (IF s = <<>> THEN <<>>
           ELSE <<Head(s)>> \o SquashStretch(Tail(s), <<>>))

\* .replace(/\s+/g, ' ').replace(/\n\s*\n/g, '\n').trim()
CleanWhitespace(s) == Norm(STrim(SquashStretch(Collapse(s), <<>>)))

\* publisherPatterns: a line that holds PUB or PRESS, a line that starts
\* with CR
IsPublisherLine(l) ==
  \/ {"PUB", "PRESS"} \cap Alphabet(l) # {}
  \/ l # <<>> /\ Head(l).c = "CR"

\* authorPatterns: AUTH, then one or more letters, ideographs and blanks
\* up to the end of the line
IsAuthorLine(l) ==
  /\ Len(l) >= 2
  /\ l[1] = Run("AUTH", 3)
  /\ \A x \in 2..Len(l) :
        l[x].c \in {"a", "b", "c", "d", "e", " ", "PUB", "CR", "PRESS"}

\* headerFooterPatterns: a page mark alone, or digits alone between blanks
IsHeaderFooterLine(l) ==
  \/ l = Str("PAGE", 3)
  \/ /\ \E x \in DOMAIN l : l[x].c = "9"
     /\ \A x \in DOMAIN l : l[x].c \in {"9", " "}
     /\ Cardinality({x \in DOMAIN l : l[x].c = "9"}) = 1

\* the line l is matched by a pattern of the list named by kind
LineMatches(kind, l) ==
  CASE kind = "publisher" -> IsPublisherLine(l)
    [] kind = "author" -> IsAuthorLine(l)
    [] kind = "headerFooter" -> IsHeaderFooterLine(l)

\* s.replace(pattern, '') for the patterns ^...$ with the flags g and m of
\* the list named by kind: the lines they match become empty
RemoveLines(s, kind) ==
  JoinLines([k \in DOMAIN Lines(s, <<>>) |->
               IF LineMatches(kind, Lines(s, <<>>)[k]) THEN <<>>
               ELSE Lines(s, <<>>)[k]])

\* the three forEach loops over the removal patterns
RemovePatterns(s) ==
  RemoveLines(RemoveLines(RemoveLines(s, "publisher"), "author"),
              "headerFooter")

RECURSIVE WeirdChars(_)
\* (s.match(/[^\u4e00-\u9fa5a-zA-Z0-9\s.,;:!?()...-]/g) || []).length
WeirdChars(s) ==
  IF s = <<>> THEN 0
  ELSE (IF Head(s).c \in {"W", "U3002"} THEN Head(s).n
        ELSE IF Head(s).c = "AUTH" THEN Head(s).n \div Width("AUTH")
        ELSE 0) + WeirdChars(Tail(s))

\* the guard compared against a hundredth of the raw length
OverCleanedHundredth(cleaned, text) == 100 * SLen(cleaned) < SLen(text)

\* cleaned.length < text.length * 0.1
OverCleaned(cleaned, text) == 10 * SLen(cleaned) < SLen(text)

\* the text that is left when the removal patterns and the second
\* white-space step are done
TextLeft(text) == CleanWhitespace(RemovePatterns(CleanWhitespace(text)))

\* cleanText(text)
CleanText(text) ==
  LET first == CleanWhitespace(text)
      cleaned == TextLeft(text)
      garbled == SLen(cleaned) > 0 /\ 5 * WeirdChars(cleaned) > SLen(cleaned)
  IN IF SLen(first) < 10
     THEN [cleanedText |-> first, needsReview |-> TRUE]
     ELSE IF OverCleaned(cleaned, text)
     THEN [cleanedText |-> CollapseTrim(text), needsReview |-> TRUE]
     ELSE [cleanedText |-> cleaned, needsReview |-> garbled]

\* a line that credits a publisher
CreditLine == SCat(SCat(Prose(1), Str("PUB", 3)), Prose(1))

\* a line of body text
BodyLine == Prose(4)

\* lines a PDF text can have: body text, body text with a wide gap, a
\* publisher credit, body text that mentions a publisher, a rights line,
\* an author line, a page mark, a page number, garbled text, a few
\* letters, and a long stretch of blanks
RawLines ==
  { BodyLine,
    SCat(SCat(Prose(3), Str(" ", 3)), Prose(3)),
    CreditLine,
    SCat(SCat(Prose(4), Str("PUB", 3)), Prose(4)),
    SCat(Str("CR", 4), Prose(2)),
    SCat(Str("AUTH", 3), Prose(2)),
    Str("PAGE", 3),
    Str("9", 3),
    SCat(Str("W", 6), Prose(2)),
    Str("a", 3),
    Str(" ", 200) }

RECURSIVE RawTexts(_)
\* the texts of n lines over RawLines
RawTexts(n) ==
  IF n = 0 THEN {<<>>}
  ELSE IF n = 1 THEN RawLines
  ELSE {SCat(SCat(t, Str("LF", 1)), l) : t \in RawTexts(n - 1), l \in RawLines}

InitCleanText ==
  /\ tree = <<>>
  /\ rootStatus = <<"ok", "ok">>
  /\ processedExists = TRUE
  /\ generateEmbeddings = FALSE
  /\ envModel = ""
  /\ InitBatch
  /\ InitOpt
  /\ InitFilter
  /\ InitReproc
  /\ rawText \in UNION {RawTexts(n) : n \in 0..MaxLines}
  /\ cleanOut = <<>>
  /\ cleanDone = FALSE

\* processPDF calls this.cleanText(pdfData.text)
RunCleanText ==
  /\ ~cleanDone
  /\ cleanOut' = CleanText(rawText)
  /\ cleanDone' = TRUE
  /\ UNCHANGED <<envVars, now, fsVars, batchVars, procVars, histVars,
                 optVars, filterVars, reprocVars, rawText>>

NextClean == RunCleanText

\* cleanText applied to every text of at most MaxLines lines
SpecClean == InitCleanText /\ [][NextClean]_vars

(***************************************************************************)
(* Properties of the batch run.                                            *)
(***************************************************************************)
InFlight == {d \in DOMAIN w : w[d].pc \notin {"idle", "fulfilled", "rejected"}}

\* number of the group of document d in the partition of the file list
GroupOf(d) == (d - 1) \div concurrentLimit

ErrorsFor(d) ==
  {k \in 1..Len(stats.errors) : stats.errors[k].file = RelativePath(files[d])}

\* C1: a document for which an artifact written by an earlier run exists
\* (same file name stem) is skipped when it is dispatched: it is counted
\* in stats.skipped and processPDF is not called for it.
C1_SkipsProcessed ==
  \A d \in DOMAIN w :
     (dispatched[d] > 0 /\ ArtifactsFor(earlier, files[d]) # {})
        => (w[d].ret = "skipped" /\ pdfCalls[d] = 0 /\ stats.skipped > 0)

\* C2: a document is started only when every document of the earlier
\* groups has settled; the documents in flight belong to one group and
\* are at most concurrentLimit.
C2_GroupBarrier ==
  /\ \A d, e \in DOMAIN w :
        (dispatched[d] > 0 /\ GroupOf(e) < GroupOf(d)) => Settled(e)
  /\ \A d, e \in InFlight : GroupOf(d) = GroupOf(e)
  /\ Cardinality(InFlight) <= concurrentLimit

\* a full group is in flight after an earlier group has settled
C2_Witness ==
  /\ Cardinality(InFlight) = concurrentLimit
  /\ \E d \in InFlight : GroupOf(d) = 1

\* the sizes of the groups of n documents: concurrentLimit, except a last
\* group of n mod concurrentLimit when that is not zero
GroupSize(n, g) ==
  IF g * concurrentLimit <= n THEN concurrentLimit ELSE n % concurrentLimit

\* C3: the groups sliced by processFiles are the consecutive slices of the
\* file list, of size concurrentLimit except a last one of size
\* n mod concurrentLimit; no document is dispatched twice, and when
\* processFiles has returned every document was dispatched exactly once.
C3_Partition ==
  /\ \A g \in 1..Len(groups) :
        /\ Len(groups[g]) = GroupSize(Len(files), g)
        /\ \A x \in 1..Len(groups[g]) :
              groups[g][x] = (g - 1) * concurrentLimit + x
  /\ \A d \in DOMAIN w : dispatched[d] <= 1
  /\ orch \in {"report", "done"} =>
        /\ \A d \in DOMAIN w : dispatched[d] = 1
        /\ \A d \in DOMAIN w : \E g \in 1..Len(groups) : d \in Range(groups[g])

\* seven documents were processed in groups of sizes 3, 3, 1
C3_Witness ==
  /\ orch = "done"
  /\ groups = << <<1, 2, 3>>, <<4, 5, 6>>, <<7>> >>

\* C4 (state part): a document whose processPDF or save threw has exactly
\* one error entry (file, message, timestamp) and is counted in
\* stats.failed; no other document has an entry; after the last group
\* every document has been dispatched.
C4_Recorded ==
  /\ \A d \in DOMAIN w :
        Cardinality(ErrorsFor(d)) = IF w[d].ret = "failed" THEN 1 ELSE 0
  /\ \A k \in 1..Len(stats.errors) :
        /\ DOMAIN stats.errors[k] = {"file", "error", "timestamp"}
        /\ stats.errors[k].error \in {"pdf", "save"}
  /\ stats.failed = Cardinality({d \in DOMAIN w : w[d].ret = "failed"})
  /\ orch \in {"report", "done"} => \A d \in DOMAIN w : dispatched[d] = 1

\* C4: failure isolation.  The failure of a document is recorded once and
\* counted, and once a document has failed the run still dispatches every
\* document and reaches the report.
C4_FailureIsolation ==
  /\ []C4_Recorded
  /\ (\E d \in DOMAIN w : w[d].ret = "failed")
        ~> (orch = "done" /\ \A d \in DOMAIN w : dispatched[d] = 1)

\* the run ended after a failure in the first group, with another document
\* of that group and a document of a later group processed
C4_Witness ==
  /\ orch = "done"
  /\ \E d, e, f \in DOMAIN w :
        /\ w[d].ret = "failed" /\ w[e].ret = "processed"
        /\ GroupOf(d) = 0 /\ GroupOf(e) = 0
        /\ GroupOf(f) > 0 /\ w[f].ret = "processed"

\* C17: when none of the configured roots can be enumerated, run() does
\* not complete as a normal run: it does not return as a run that found
\* nothing to do.
C17_RootFailureSurfaced ==
  (\A r \in 1..NumRoots : rootStatus[r] # "ok") => orch # "returned"

\* C18: the embeddingModel recorded in the configuration of the run report
\* is the model profile that the PDFProcessor of the run selected.
C18_ReportNamesActiveModel ==
  report # <<>> => report.configuration.embeddingModel = embeddingModel

\* C19: for an EMBEDDING_MODEL that is not a key of EMBEDDING_MODELS the
\* processor has fallen back to all-MiniLM-L6-v2, and embeddingModel and
\* modelConfig denote the same entry of the registry.
C19_UnknownModelFallsBack ==
  /\ embeddingModel \in DOMAIN EMBEDDING_MODELS
  /\ modelConfig = embeddingModel
  /\ ConfiguredModel(envModel) \notin DOMAIN EMBEDDING_MODELS =>
       embeddingModel = "all-MiniLM-L6-v2"

\* C24: while the documents of a group are in flight the counters and the
\* error list of stats stay as they are; they change only in run() before
\* the first group and in the loop of processFiles once the group has
\* settled.
C24_OrchestratorOwnsStats ==
  [][stats' # stats =>
       \/ orch \in {"init", "done", "returned"}
       \/ orch = "await" /\ BatchSettled(Batch)]_vars

\* C25: at the end of a run that dispatched its documents, processed +
\* failed + skipped = total and errors has one entry per failed document;
\* each document is counted in exactly one of the three counters, once.
C25_Accounting ==
  orch \in {"report", "done"} =>
    /\ stats.processed + stats.failed + stats.skipped = stats.total
    /\ Len(stats.errors) = stats.failed
    /\ stats.processed =
         Cardinality({d \in DOMAIN w : w[d].ret = "processed"})
    /\ stats.failed = Cardinality({d \in DOMAIN w : w[d].ret = "failed"})
    /\ stats.skipped = Cardinality({d \in DOMAIN w : w[d].ret = "skipped"})
    /\ \A d \in DOMAIN w : w[d].ret \in {"processed", "failed", "skipped"}

\* a run over two groups or more ended with one document failed and the
\* others processed
C25_Witness ==
  /\ orch = "done"
  /\ stats.total > concurrentLimit
  /\ stats.failed = 1
  /\ stats.processed = stats.total - 1

\* C27: of two discovered documents with the same file name stem at most
\* one is processed and saved in a run, and the other one is skipped.
C27_OneArtifactPerStem ==
  \A d, e \in DOMAIN w :
     (/\ d # e
      /\ Basename(files[d].name, ".pdf") = Basename(files[e].name, ".pdf")
      /\ w[d].ret = "processed")
     => (w[e].ret # "processed" /\ (Settled(e) => w[e].ret = "skipped"))

(***************************************************************************)
(* Properties of the embedding stage.                                      *)
(***************************************************************************)
\* processPDF has returned for document d
Returned(d) == w[d].pc = "save" \/ (w[d].pc = "fulfilled" /\ w[d].out # <<>>)

\* C5: the model loader pipeline(...) is invoked at most once on one
\* PDFProcessor instance.
C5_LoadedOnce == loadCalls <= 1

\* C6: when generateEmbedding threw for some chunks of a document,
\* processPDF still returns all chunks in order; exactly the chunks whose
\* call threw lack an embedding; the failure of an embedding never makes
\* the document fail, so the document is counted as processed once its
\* artifact is saved (only a save error can still fail it).
C6_EmbeddingFailureNonFatal ==
  /\ \A d \in DOMAIN w :
        w[d].ret = "failed" => w[d].reason \in {"pdf", "save"}
  /\ \A d \in DOMAIN w :
        (Returned(d) /\ w[d].threw # {}) =>
           /\ Len(w[d].chunks) = Len(w[d].texts)
           /\ \A k \in 1..Len(w[d].texts) :
                 /\ w[d].chunks[k].content = w[d].texts[k]
                 /\ w[d].chunks[k].chunkIndex = k - 1
                 /\ w[d].chunks[k].embedding.present <=> k \notin w[d].threw
           /\ w[d].pc = "fulfilled" =>
                 \/ w[d].ret = "processed" /\ ErrorsFor(d) = {}
                 \/ w[d].ret = "failed" /\ w[d].reason = "save"
  /\ stats.processed =
        Cardinality({d \in DOMAIN w : w[d].ret = "processed"})

\* a document with one chunk embedded and one chunk whose embedding call
\* threw was saved and counted as processed
C6_Witness ==
  \E d \in DOMAIN w :
     /\ w[d].pc = "fulfilled" /\ w[d].ret = "processed"
     /\ Len(w[d].chunks) >= 2
     /\ w[d].threw # {}
     /\ \E k \in 1..Len(w[d].chunks) : w[d].chunks[k].embedding.present
     /\ stats.processed >= 1 /\ stats.failed = 0

\* C26: at most one inference call on the shared embeddingPipeline is in
\* flight at any moment of a batch run.
C26_OneInferenceAtATime ==
  Cardinality({d \in DOMAIN w : w[d].pc = "infer"}) <= 1

\* C7: every embedding stored in a chunk has the length declared by the
\* active model profile.
C7_Dimension ==
  \A d \in DOMAIN w : \A k \in 1..Len(w[d].chunks) :
     w[d].chunks[k].embedding.present =>
        w[d].chunks[k].embedding.dim = EMBEDDING_MODELS[modelConfig].dimensions


(***************************************************************************)
(* Properties of the optimizer.                                            *)
(***************************************************************************)
\* the contents of a chunk sequence, in order
Contents(chunks) == [k \in DOMAIN chunks |-> chunks[k].content]

InRange(content) ==
  SLen(content) >= MIN_CHUNK_LENGTH /\ SLen(content) <= MAX_CHUNK_LENGTH

\* C8: every chunk that optimizeChunks returns, except possibly the last
\* one, has a content of at least MIN_CHUNK_LENGTH and at most
\* MAX_CHUNK_LENGTH characters.
C8_LengthInvariant ==
  optDone >= 1 =>
    \A k \in 1..(Len(optOut) - 1) : InRange(optOut[k].content)

\* C9: the chunks that optimizeChunks returns carry the chunkIndex
\* 0, 1, ..., n-1 in order, whatever the mix of empty, short, in-range and
\* over-long input chunks and whether or not the last pending chunk was
\* merged into the last pushed one.
C9_IndexContiguity ==
  optDone >= 1 =>
    \A k \in DOMAIN optOut : optOut[k].metadata.chunkIndex = k - 1

\* a first call that dropped a chunk, split an over-long chunk and merged
\* the short pending chunk into the last part
C9_Witness ==
  /\ optDone = 1
  /\ Len(optIn) = 3
  /\ Len(optOut) = 2
  /\ statistics.removedChunks = 1
  /\ statistics.mergedChunks = 1
  /\ optOut[2].metadata.split = "true"
  /\ optOut[2].metadata.merged = "true"
  /\ optOut[2].metadata.chunkIndex = 1

\* C10: when every input chunk has a content of at least MIN_CHUNK_LENGTH
\* and at most MAX_CHUNK_LENGTH characters, optimizeChunks returns the same
\* contents in the same order.
C10_Idempotence ==
  (optDone >= 1 /\ \A k \in DOMAIN optIn : InRange(optIn[k].content))
    => Contents(optOut) = Contents(optIn)

\* C11 as stated: ten input chunks of length 30 come back as five chunks,
\* each of at least MIN_CHUNK_LENGTH characters.
C11_MergedInPairs ==
  (optDone = 1 /\ optIn = ShortRun(10, 30)) =>
    /\ Len(optOut) = 5
    /\ \A k \in DOMAIN optOut : SLen(optOut[k].content) >= MIN_CHUNK_LENGTH

\* C11 amended: ten input chunks of length 30 come back as one chunk that
\* holds all ten contents joined by SEPARATOR, 309 characters, which is at
\* least MIN_CHUNK_LENGTH; nine merges are counted.
C11_MergedIntoOne ==
  (optDone = 1 /\ optIn = ShortRun(10, 30)) =>
    /\ Len(optOut) = 1
    /\ SLen(optOut[1].content) = 10 * 30 + 9
    /\ SLen(optOut[1].content) >= MIN_CHUNK_LENGTH
    /\ statistics.mergedChunks = 9

\* optimizeChunks has returned for the ten chunks of length 30
C11_Witness ==
  /\ optDone = 1
  /\ optIn = ShortRun(10, 30)
  /\ Len(optOut) = 1

\* C16: in the chunk sequence a document ends with, every chunk that has
\* an embedding has the embedding computed from its own final content: a
\* merged or split chunk never keeps a vector computed from other text.
C16_EmbeddingOfFinalContent ==
  optDone >= 1 =>
    \A k \in DOMAIN optOut :
       optOut[k].embedding.present =>
          optOut[k].embedding.of = optOut[k].content

\* C23: every chunk that optimizeChunks emits with split = true has a
\* content of at most MAX_CHUNK_LENGTH characters, and its splitPart lies
\* in 1..totalParts.
C23_SplitPartsBounded ==
  optDone >= 1 =>
    \A k \in DOMAIN optOut :
       optOut[k].metadata.split = "true" =>
          /\ SLen(optOut[k].content) <= MAX_CHUNK_LENGTH
          /\ optOut[k].metadata.splitPart \in 1..optOut[k].metadata.totalParts

\* C28: in the output of optimizeChunks a chunk that was not split has
\* merged = true exactly when its content is not the content of one input
\* chunk but a concatenation of several.
C28_MergeProvenance ==
  optDone = 1 =>
    \A k \in DOMAIN optOut :
       optOut[k].metadata.split # "true" =>
          (optOut[k].metadata.merged = "true"
             <=> \A j \in DOMAIN optIn :
                    optIn[j].content # optOut[k].content)

\* C29: the optimization record of a file holds the merges and removals
\* performed on the chunks of that file, however many files were optimized
\* before it, and originalChunks - removedChunks - mergedChunks + (parts
\* added by splits) = optimizedChunks.
C29_PerFileRecord ==
  (optDone = 1 /\ optimization # <<>>) =>
    LET own == OptimizeChunks(optIn, InitStatistics).statistics
        added == Cardinality({k \in DOMAIN optOut :
                                /\ optOut[k].metadata.split = "true"
                                /\ optOut[k].metadata.splitPart > 1})
    IN /\ optimization.mergedChunks = own.mergedChunks
       /\ optimization.removedChunks = own.removedChunks
       /\ optimization.originalChunks - optimization.removedChunks
            - optimization.mergedChunks + added
          = optimization.optimizedChunks

(***************************************************************************)
(* Properties of the content filters.                                      *)
(***************************************************************************)
\* C12: for each of the three scripts, the chunks of the file are either
\* removed and counted once in removed, or survive as one chunk each:
\* removed plus survivors is the number of chunks the file had, and the
\* returned counts say the same.
C12_Conservation ==
  filtDone =>
    /\ filtOut.ret.removed + Len(filtOut.chunks) = Len(filtIn)
    /\ filtOut.ret.removed + filtOut.ret.filtered = filtOut.ret.original
    /\ filtOut.written =>
         /\ filtOut.ret.original = Len(filtIn)
         /\ filtOut.ret.filtered = Len(filtOut.chunks)

\* a file of two chunks was rewritten with one chunk dropped after
\* cleaning and one survivor
C12_Witness ==
  /\ filtDone
  /\ filtOut.written
  /\ Len(filtIn) = 2
  /\ filtIn[1].content = Str("CR", 16)
  /\ filtVariant = "smart"
  /\ filtOut.ret.removed = 1
  /\ Len(filtOut.chunks) = 1

\* C13: the chunks that processPDF builds carry chunkIndex 0..n-1 in order
\* and the document's totalChunks is n; the survivors that a filter script
\* writes carry chunkIndex 0..n-1 in order and totalChunks is n.
C13_StageIndexContiguity ==
  /\ \A d \in DOMAIN w : \A k \in DOMAIN w[d].chunks :
        w[d].chunks[k].chunkIndex = k - 1
  /\ \A a \in DOMAIN processedDir :
        /\ processedDir[a].totalChunks = Len(processedDir[a].chunks)
        /\ \A k \in DOMAIN processedDir[a].chunks :
              processedDir[a].chunks[k].chunkIndex = k - 1
  /\ (filtDone /\ filtOut.written) =>
        /\ filtOut.totalChunks = Len(filtOut.chunks)
        /\ \A k \in DOMAIN filtOut.chunks :
              filtOut.chunks[k].metadata.chunkIndex = k - 1

\* a filter script dropped the first chunk of a file and wrote the second
\* one, which came with chunkIndex 1, as its only survivor
C13_Witness ==
  /\ filtDone
  /\ filtOut.written
  /\ Len(filtIn) = 2
  /\ filtIn[2].metadata.chunkIndex = 1
  /\ filtOut.ret.removed = 1
  /\ Len(filtOut.chunks) = 1
  /\ filtOut.chunks[1].content = CleanContent(filtVariant, filtIn[2].content)
  /\ filtOut.chunks[1].metadata.chunkIndex = 0

\* C20: a chunk that passes the full-removal test, whose cleaned content
\* is shorter than 20 characters and whose content holds an educational
\* keyword, is kept by the smart and by the enhanced script with its
\* content as it was and tagged contentPreserved.
C20_KeywordOverride ==
  (filtDone /\ filtOut.written /\ filtVariant \in {"smart", "enhanced"}) =>
    \A k \in DOMAIN filtIn :
       (/\ ~ShouldFilterContent(filtVariant, filtIn[k].content)
        /\ SLen(CleanContent(filtVariant, filtIn[k].content)) < 20
        /\ HasEducationalContent(filtVariant, filtIn[k].content))
       => \E j \in DOMAIN filtOut.chunks :
             /\ filtOut.chunks[j].content = filtIn[k].content
             /\ filtOut.chunks[j].metadata.contentPreserved = "true"

\* C21: no chunk whose content has fewer than 5 distinct characters other
\* than white space survives a filter script, whatever its length and
\* whether or not it holds an educational keyword.
C21_DistinctCharRule ==
  (filtDone /\ filtOut.written) =>
    \A j \in DOMAIN filtOut.chunks :
       UniqueChars(filtOut.chunks[j].content) >= 5

(***************************************************************************)
(* Properties of cleanText.                                                *)
(***************************************************************************)
\* C14: whenever the text left after the removal patterns is shorter than
\* a tenth of the raw text, cleanText returns the raw text with its white
\* space collapsed, and needsReview is true.
C14_OverCleaningGuard ==
  (cleanDone /\ 10 * SLen(TextLeft(rawText)) < SLen(rawText)) =>
    /\ cleanOut.cleanedText = CollapseTrim(rawText)
    /\ cleanOut.needsReview

\* cleanText has returned for a text whose patterns leave less than a
\* tenth of it, though more than nothing
C14_Witness ==
  /\ cleanDone
  /\ SLen(CleanWhitespace(rawText)) >= 10
  /\ SLen(TextLeft(rawText)) > 0
  /\ 10 * SLen(TextLeft(rawText)) < SLen(rawText)
  /\ cleanOut.needsReview

\* C15: for a publisher credit line followed by a body line, cleanText
\* returns the body line alone, with needsReview false: the pattern
\* deletes the line it matches and leaves the other line.
C15_LineScopedRemoval ==
  (cleanDone /\ rawText = SCat(SCat(CreditLine, Str("LF", 1)), BodyLine)) =>
    /\ cleanOut.cleanedText = BodyLine
    /\ ~cleanOut.needsReview

(***************************************************************************)
(* Properties of the reprocess script.                                     *)
(***************************************************************************)
\* C22: the batch run that the reprocess script triggers processes only
\* documents whose artifacts the script flagged, and skips every document
\* that has an artifact that was not flagged and still exists.
C22_TargetedReprocessing ==
  reproc \in {"exec", "done"} =>
    \A d \in DOMAIN w :
       /\ (dispatched[d] > 0
             /\ ArtifactsFor(earlier \ failedFiles, files[d]) # {})
            => (w[d].ret = "skipped" /\ pdfCalls[d] = 0)
       /\ pdfCalls[d] > 0 => ArtifactsFor(failedFiles, files[d]) # {}

\* C30: when the reprocess script has deleted the artifacts it flagged and
\* the batch run it triggered has ended with every document processed and
\* every first chunk embedded, a further scan flags no artifact.
C30_ReprocessFixedPoint ==
  (/\ reproc = "done"
   /\ failedFiles \cap DOMAIN processedDir = {}
   /\ \A d \in DOMAIN w :
         /\ w[d].ret = "processed"
         /\ w[d].chunks # <<>>
         /\ w[d].chunks[1].embedding.present)
  => ScanProcessed = {}

====
